---------------------------- MODULE Spec2Model ----------------------------
(***************************************************************************)
(* Advent of Games: Snakle, Mastermind, Froggle, Hay Girl, Nomoji.         *)
(* Each game is one React component; its useState cells are the variables  *)
(* below, its event handlers, timer callbacks and effects are the actions. *)
(* A handler and the effects React runs for the render it causes are one   *)
(* atomic action.                                                          *)
(***************************************************************************)
EXTENDS Integers, Sequences, FiniteSets, TLC

VARIABLES
    \* ---- Snakle (src/packages/game-01/src/Game.tsx) ----
    seed,            \* the seed prop: a positive number, or 0 for "not given"
    today,           \* <<year, month, day>> read by new Date() when seed is falsy
    walls,           \* useMemo: generateLevel(dateSeed)
    snake, direction, isAlive, fruit, score, lives, speed, gameState, countdown,
    timers,          \* the live countdown intervals: the closure variable count of each
    restarts,        \* pending setTimeout callbacks of the self-collision effect
    completed,       \* the scores passed to onComplete, in call order
    ticks,           \* movement-interval firings so far
    turned,          \* a direction input changed direction since the last movement tick
    mounted,         \* the Game component is mounted
    twin,            \* a second session mounted with the same seed (SpecTwin)
    twinWalls,       \* the walls memo of the second session
    \* ---- generateLevel run attempt by attempt (SpecLevel) ----
    levelSeed, attempt, generatedWalls, levelPc, levelResult,
    \* ---- Mastermind (src/unnamed/part_001) ----
    solution, guesses, currentGuess, gameStatus, showWinModal, mmCompleted,
    \* ---- checkGuess applied to one code and one guess (SpecScore) ----
    scCode, scGuess, scFeedback,
    \* ---- Froggle isColliding applied to one input (SpecCollide) ----
    colFrog, colObstacles, colLane, colResult,
    \* ---- Froggle (src/packages/game-04/src/main.tsx) ----
    frogGameState, frogLives, frogTime, frogPos, frogLanes,
    previousTime,    \* previousTimeRef.current in ms, -1 for undefined
    frogCompleted,   \* the scores passed to onComplete, in call order
    frameCount,      \* animation frames so far
    lastCheck,       \* what the collision check of the last step saw and did
    resetQueued,     \* the collision check has queued a life loss no render has applied
    \* ---- Hay Girl (src/unnamed/part_003) ----
    hay,             \* the state of the zustand store useGameStore
    hayNow,          \* Date.now() in ms
    hayViews,        \* per mounted Game: showInstructions, the onComplete calls
    hayMounted,      \* the Game components mounted on the page
    hayLast,         \* the handler that ran last and the Game that ran it
    hayWaits,        \* clock advances so far
    \* ---- Nomoji (src/packages/ui/tailwind.config.mjs) ----
    nomojiSeed,      \* the seed prop
    sortOrders,      \* the orders the two sorts of generateGameEmojis come out in
    gameData,        \* useMemo: generateGameEmojis(seed)
    nomoji,          \* per play of the game: the useState cells of its Game
    nomojiNow,       \* Date.now() in ms
    nomojiCompleted, \* per play: the scores passed to onComplete, in call order
    nomojiWaits,     \* clock advances so far
    \* ---- Froggle SeededRNG as one stream (SpecRng) ----
    rngSeed,         \* this.seed
    rngOut,          \* the last call: the method, its arguments, what it returned
    rngCalls,        \* calls so far
    \* ---- Mastermind Games mounted with one seed prop (SpecSeeded) ----
    seedProp,        \* the seed prop the host passes
    instances        \* per Game mounted: Date.now() at its mount, its solution

snakleVars == <<seed, today, walls, snake, direction, isAlive, fruit, score, lives,
                speed, gameState, countdown, timers, restarts, completed, ticks,
                turned, mounted, twin, twinWalls>>
levelVars == <<levelSeed, attempt, generatedWalls, levelPc, levelResult>>
mastermindVars == <<solution, guesses, currentGuess, gameStatus, showWinModal,
                    mmCompleted>>
scoreVars == <<scCode, scGuess, scFeedback>>
collideVars == <<colFrog, colObstacles, colLane, colResult>>
froggleVars == <<frogGameState, frogLives, frogTime, frogPos, frogLanes, previousTime,
                 frogCompleted, frameCount, lastCheck, resetQueued>>

hayVars == <<hay, hayNow, hayViews, hayMounted, hayLast, hayWaits>>
nomojiVars == <<nomojiSeed, sortOrders, gameData, nomoji, nomojiNow, nomojiCompleted,
                nomojiWaits>>
rngVars == <<rngSeed, rngOut, rngCalls>>
seededVars == <<seedProp, instances>>
moreVars == <<hayVars, nomojiVars, rngVars, seededVars>>

vars == <<snakleVars, levelVars, mastermindVars, scoreVars, collideVars, froggleVars,
          moreVars>>

-----------------------------------------------------------------------------
(***************************************************************************)
(* 32-bit unsigned words as <<high 16 bits, low 16 bits>>: the values of   *)
(* Math.imul, ^, >>> and of the % 4294967296 recurrence.                   *)
(***************************************************************************)
Half == 256 * 256

\* The element of a one-element set.  { F(t) : t \in {e} } evaluates e once and
\* binds t to its value, which keeps the loops below from re-evaluating their state.
Only(S) == CHOOSE r \in S : TRUE

\* for (i = lo; i <= hi; i++) st = Body(st, i), evaluated by halving the range so
\* that a loop of n rounds nests only log n deep.
RECURSIVE For(_, _, _, _)
For(Body(_, _), st, lo, hi) ==
    IF lo > hi THEN st
    ELSE IF lo = hi THEN Only({Body(t, lo) : t \in {st}})
    ELSE Only({For(Body, t, ((lo + hi) \div 2) + 1, hi) :
                   t \in {For(Body, st, lo, (lo + hi) \div 2)}})

RECURSIVE Xor16(_, _)
Xor16(x, y) ==
    IF x = 0 THEN y
    ELSE IF y = 0 THEN x
    ELSE ((x + y) % 2) + 2 * Xor16(x \div 2, y \div 2)

RECURSIVE Or16(_, _)
Or16(x, y) ==
    IF x = 0 THEN y
    ELSE IF y = 0 THEN x
    ELSE (IF x % 2 = 1 \/ y % 2 = 1 THEN 1 ELSE 0) + 2 * Or16(x \div 2, y \div 2)

\* The 32-bit product of two 16-bit numbers, as a word.
Mul16(x, y) ==
    LET p0 == x * (y % 256)
        p1 == x * (y \div 256)
        low == p0 + (p1 % 256) * 256
    IN  <<((p1 \div 256) + (low \div Half)) % Half, low % Half>>

Add32(a, b) ==
    LET low == a[2] + b[2]
    IN  <<(a[1] + b[1] + (low \div Half)) % Half, low % Half>>

\* Math.imul(a, b): the low 32 bits of the product.
Mul32(a, b) ==
    LET ll == Mul16(a[2], b[2])
    IN  <<(ll[1] + Mul16(a[1], b[2])[2] + Mul16(a[2], b[1])[2]) % Half, ll[2]>>

Xor32(a, b) == <<Xor16(a[1], b[1]), Xor16(a[2], b[2])>>

\* a >>> k for 0 < k < 16.
RECURSIVE Pow2(_)
Pow2(k) == IF k = 0 THEN 1 ELSE 2 * Pow2(k - 1)

Shr32(a, k) ==
    <<a[1] \div Pow2(k), (a[2] \div Pow2(k)) + (a[1] % Pow2(k)) * Pow2(16 - k)>>

\* a >= b on words.
Geq32(a, b) == a[1] > b[1] \/ (a[1] = b[1] /\ a[2] >= b[2])

\* Math.floor((w / 4294967296) * n) for a small positive n.
ScaleFloor(w, n) == (w[1] * n + ((w[2] * n) \div Half)) \div Half

-----------------------------------------------------------------------------
(***************************************************************************)
(* Strings as sequences of char codes.                                     *)
(***************************************************************************)
RECURSIVE Digits(_)
Digits(n) == IF n < 10 THEN <<48 + n>> ELSE Append(Digits(n \div 10), 48 + (n % 10))

Dash == <<45>>

-----------------------------------------------------------------------------
(***************************************************************************)
(* Snakle: constants, SeededRNG, isConnected, generateLevel.               *)
(***************************************************************************)
GRID_SIZE == 20
INITIAL_SPEED == 150
MIN_SPEED == 80
SPEED_DECREMENT == 2
MAX_ATTEMPTS == 100

Directions == {"UP", "DOWN", "LEFT", "RIGHT"}

DIRECTIONS ==
    [d \in Directions |->
        CASE d = "UP" -> [x |-> 0, y |-> -1]
          [] d = "DOWN" -> [x |-> 0, y |-> 1]
          [] d = "LEFT" -> [x |-> -1, y |-> 0]
          [] d = "RIGHT" -> [x |-> 1, y |-> 0]]

INITIAL_SNAKE == <<[x |-> 10, y |-> 10], [x |-> 10, y |-> 11], [x |-> 10, y |-> 12]>>

\* new SeededRNG(seedStr): the hash of the string.
SeededRNG(seedStr) ==
    LET mix(h, i) == Mul32(<<h[1], Xor16(h[2], seedStr[i + 1])>>, <<40503, 31153>>)
        h == For(mix, <<57005, 48879>>, 0, Len(seedStr) - 1)
    IN  <<h[1], Xor16(h[2], h[1])>>

\* next(): the new this.seed; the value returned is this.seed / 4294967296.
RngNext(w) == Add32(Mul32(w, <<25, 26125>>), <<15470, 62303>>)

\* nextInt(min, max) read off the word that next() has just produced.
IntOf(w, min, max) == ScaleFloor(w, max - min + 1) + min

\* next() > 0.5, > 0.2, > 0.3 read off the word that next() has just produced.
Above05(w) == Geq32(w, <<32768, 1>>)
Above02(w) == Geq32(w, <<13107, 13108>>)
Above03(w) == Geq32(w, <<19660, 52429>>)

InGrid(p) == p.x >= 0 /\ p.x < GRID_SIZE /\ p.y >= 0 /\ p.y < GRID_SIZE

\* patternType 0: one round of the loop.  st = [rng, walls].
PushRandomPoint(st, i) ==
    LET w1 == RngNext(st.rng)
        w2 == RngNext(w1)
    IN  [rng |-> w2,
         walls |-> Append(st.walls, [x |-> IntOf(w1, 0, GRID_SIZE - 1),
                                     y |-> IntOf(w2, 0, GRID_SIZE - 1)])]

\* patternType 1: one cell of a stripe, then one stripe.
StripeCell(st, isVertical, fixed, i) ==
    LET w == RngNext(st.rng)
        cell == IF isVertical THEN [x |-> fixed, y |-> i] ELSE [x |-> i, y |-> fixed]
    IN  [rng |-> w, walls |-> IF Above02(w) THEN Append(st.walls, cell) ELSE st.walls]

Stripe(st, isVertical, c) ==
    LET w == RngNext(st.rng)
        fixed == IntOf(w, 2, GRID_SIZE - 3)
        cellAt(t, i) == StripeCell(t, isVertical, fixed, i)
    IN  For(cellAt, [rng |-> w, walls |-> st.walls], 0, GRID_SIZE - 1)

\* patternType 2: the ring at one inset, then one gap.
RingRow(ws, inset, x) ==
    ws \o <<[x |-> x, y |-> inset], [x |-> x, y |-> GRID_SIZE - inset - 1]>>

RingCol(ws, inset, y) ==
    ws \o <<[x |-> inset, y |-> y], [x |-> GRID_SIZE - inset - 1, y |-> y]>>

\* splice(idx, 1) with idx counted from 0.
Splice(ws, idx) == SubSeq(ws, 1, idx) \o SubSeq(ws, idx + 2, Len(ws))

Gap(st, i) ==
    IF Len(st.walls) = 0 THEN st
    ELSE LET w == RngNext(st.rng)
             idx == IntOf(w, 0, Len(st.walls) - 1)
             once == Splice(st.walls, idx)
         IN  [rng |-> w, walls |-> IF idx < Len(once) THEN Splice(once, idx) ELSE once]

\* patternType 3: the spiral.  sp = [rng, walls, x, y, dir, steps].
SpiralDirs == <<[x |-> 0, y |-> -1], [x |-> 1, y |-> 0], [x |-> 0, y |-> 1], [x |-> -1, y |-> 0]>>

SpiralStep(sp, s) ==
    LET p == [x |-> sp.x + SpiralDirs[sp.dir + 1].x, y |-> sp.y + SpiralDirs[sp.dir + 1].y]
        w == RngNext(sp.rng)
    IN  IF InGrid(p)
        THEN [sp EXCEPT !.rng = w,
                        !.walls = IF Above03(w) THEN Append(sp.walls, p) ELSE sp.walls,
                        !.x = p.x, !.y = p.y]
        ELSE [sp EXCEPT !.x = p.x, !.y = p.y]

SpiralArm(sp, i) ==
    LET arm == For(SpiralStep, sp, 0, sp.steps - 1)
    IN  [arm EXCEPT !.dir = (sp.dir + 1) % 4,
                    !.steps = IF i % 2 = 0 THEN sp.steps + 1 ELSE sp.steps]

\* One pass of the while loop up to generatedWalls, for the RNG of this attempt.
PatternWalls(rng0) ==
    LET w1 == RngNext(rng0)
        patternType == IntOf(w1, 0, 3)
    IN  CASE patternType = 0 ->
               LET w2 == RngNext(w1)
               IN  For(PushRandomPoint, [rng |-> w2, walls |-> <<>>],
                       0, IntOf(w2, 10, 25) - 1).walls
          [] patternType = 1 ->
               LET w2 == RngNext(w1)
                   w3 == RngNext(w2)
                   stripe(t, c) == Stripe(t, Above05(w2), c)
               IN  For(stripe, [rng |-> w3, walls |-> <<>>], 0, IntOf(w3, 2, 4) - 1).walls
          [] patternType = 2 ->
               LET w2 == RngNext(w1)
                   inset == IntOf(w2, 3, 6)
                   row(ws, x) == RingRow(ws, inset, x)
                   col(ws, y) == RingCol(ws, inset, y)
                   ring == For(col, For(row, <<>>, inset, GRID_SIZE - inset - 1),
                               inset, GRID_SIZE - inset - 1)
                   w3 == RngNext(w2)
               IN  For(Gap, [rng |-> w3, walls |-> ring], 0, IntOf(w3, 2, 4) - 1).walls
          [] OTHER ->
               For(SpiralArm,
                   [rng |-> w1, walls |-> <<>>, x |-> GRID_SIZE \div 2,
                    y |-> GRID_SIZE \div 2, dir |-> 0, steps |-> 1],
                   0, GRID_SIZE * 2 - 1).walls

\* generatedWalls.filter(...): the snake's three start cells are never walls.
FinalWalls(ws) ==
    LET keep(w) == ~(w.x = 10 /\ w.y >= 10 /\ w.y <= 12)
    IN  SelectSeq(ws, keep)

\* `${seedStr}-${attempt}`
AttemptSeed(seedStr, n) == seedStr \o Dash \o Digits(n)

Candidate(seedStr, n) == FinalWalls(PatternWalls(SeededRNG(AttemptSeed(seedStr, n))))

\* The cells of the grid that hold a wall (grid[y][x] = true).
WallCells(ws, gridSize) ==
    {[x |-> ws[i].x, y |-> ws[i].y] : i \in {j \in 1..Len(ws) :
        ws[j].x >= 0 /\ ws[j].x < gridSize /\ ws[j].y >= 0 /\ ws[j].y < gridSize}}

\* The neighbours of p in the order the code lists them, wrapped at the edges.
Neighbors(p, gridSize) ==
    <<[x |-> (p.x + gridSize) % gridSize, y |-> (p.y - 1 + gridSize) % gridSize],
      [x |-> (p.x + gridSize) % gridSize, y |-> (p.y + 1 + gridSize) % gridSize],
      [x |-> (p.x - 1 + gridSize) % gridSize, y |-> (p.y + gridSize) % gridSize],
      [x |-> (p.x + 1 + gridSize) % gridSize, y |-> (p.y + gridSize) % gridSize]>>

\* One neighbour of the for loop.  b = [queue, visited, visitedCount].
Visit(b, n, grid) ==
    IF n \notin grid /\ n \notin b.visited
    THEN [b EXCEPT !.visited = b.visited \cup {n}, !.queue = Append(b.queue, n)]
    ELSE b

\* One round of while (queue.length > 0); a round on an empty queue is the loop
\* having ended.
BfsRound(b, grid, gridSize) ==
    IF b.queue = <<>> THEN b
    ELSE LET p == Head(b.queue)
             ns == Neighbors(p, gridSize)
             visit(t, i) == Visit(t, ns[i], grid)
         IN  For(visit,
                 [b EXCEPT !.queue = Tail(b.queue), !.visitedCount = b.visitedCount + 1],
                 1, 4)

\* The first free cell in row order (y outer, x inner).
FirstFree(grid, gridSize) ==
    LET free == {k \in 0..(gridSize * gridSize - 1) :
                    [x |-> k % gridSize, y |-> k \div gridSize] \notin grid}
        k0 == CHOOSE k \in free : \A j \in free : k <= j
    IN  [x |-> k0 % gridSize, y |-> k0 \div gridSize]

\* The check that accepts every wall list.
isConnectedUnchecked(ws, gridSize) == TRUE

isConnected(ws, gridSize) ==
    LET grid == WallCells(ws, gridSize)
        freeCount == gridSize * gridSize - Cardinality(grid)
    IN  IF freeCount = 0 THEN FALSE
        ELSE LET start == FirstFree(grid, gridSize)
                 round(t, i) == BfsRound(t, grid, gridSize)
                 \* every cell enters the queue at most once
                 b == For(round, [queue |-> <<start>>, visited |-> {start},
                                  visitedCount |-> 0], 1, gridSize * gridSize)
             IN  b.visitedCount = freeCount

\* One pass of while (attempt < 100).  g = [returned, walls].
Attempt(g, seedStr, n) ==
    IF g.returned THEN g
    ELSE LET finalWalls == Candidate(seedStr, n)
         IN  IF isConnected(finalWalls, GRID_SIZE)
             THEN [returned |-> TRUE, walls |-> finalWalls]
             ELSE g

generateLevel(seedStr) ==
    LET try(g, n) == Attempt(g, seedStr, n)
    IN  For(try, [returned |-> FALSE, walls |-> <<>>], 0, MAX_ATTEMPTS - 1).walls

-----------------------------------------------------------------------------
(***************************************************************************)
(* Snakle: the Game component.  A session is the record of its useState    *)
(* cells plus its pending timers; each handler is a function on sessions.  *)
(***************************************************************************)
\* fruit === null
NoFruit == [x |-> -1, y |-> -1]

\* The seed string of the walls memo.  today[2] is getMonth() + 1.
dateSeed(sd, date) ==
    IF sd # 0 THEN Digits(sd)
    ELSE Digits(date[1]) \o Dash \o Digits(date[2]) \o Dash \o Digits(date[3])

\* array.some(p => p.x === c.x && p.y === c.y)
Some(points, c) == \E i \in 1..Len(points) : points[i] = c

\* The session of the first render.
NewSession ==
    [snake |-> INITIAL_SNAKE, direction |-> "UP", isAlive |-> TRUE, fruit |-> NoFruit,
     score |-> 0, lives |-> 0, speed |-> INITIAL_SPEED, gameState |-> "START",
     countdown |-> 3, timers |-> <<>>, restarts |-> 0, completed |-> <<>>]

\* spawnFruit with Math.random drawing cell: snk is the snake of the render whose
\* closure runs; the callers draw only cells that pass the onSnake / onWall test.
spawnFruit(s, cell) == [s EXCEPT !.fruit = cell]

StartCountdownUnset(s) ==
    [s EXCEPT !.gameState = "COUNTDOWN", !.timers = Append(@, 3)]

\* setGameState('COUNTDOWN'); setCountdown(3); let count = 3;
\* const timer = setInterval(...)
StartCountdown(s) ==
    [s EXCEPT !.gameState = "COUNTDOWN", !.countdown = 3, !.timers = Append(@, 3)]

startGame(s) == StartCountdown(s)

\* The cell in front of the head, not wrapped.
NewHeadUnwrapped(s) ==
    [x |-> s.snake[1].x + DIRECTIONS[s.direction].x,
     y |-> s.snake[1].y + DIRECTIONS[s.direction].y]

\* The wrapped cell in front of the head.
NewHead(s) ==
    LET x == s.snake[1].x + DIRECTIONS[s.direction].x
        y == s.snake[1].y + DIRECTIONS[s.direction].y
    IN  [x |-> IF x < 0 THEN GRID_SIZE - 1 ELSE IF x >= GRID_SIZE THEN 0 ELSE x,
         y |-> IF y < 0 THEN GRID_SIZE - 1 ELSE IF y >= GRID_SIZE THEN 0 ELSE y]

\* The collision test with the tail cell left out.
HitsBodyButTail(prevSnake, newHead) == Some(SubSeq(prevSnake, 1, Len(prevSnake) - 1), newHead)

\* prevSnake.some(segment => segment is newHead)
HitsBody(prevSnake, newHead) == Some(prevSnake, newHead)

moveSnake(s) ==
    IF ~s.isAlive THEN s
    ELSE IF HitsBody(s.snake, NewHead(s)) THEN [s EXCEPT !.isAlive = FALSE]
    ELSE [s EXCEPT !.snake = <<NewHead(s)>> \o SubSeq(s.snake, 1, Len(s.snake) - 1)]

isOpposite(newDirection, prev) ==
    \/ newDirection = "UP" /\ prev = "DOWN"
    \/ newDirection = "DOWN" /\ prev = "UP"
    \/ newDirection = "LEFT" /\ prev = "RIGHT"
    \/ newDirection = "RIGHT" /\ prev = "LEFT"

changeDirection(s, newDirection) ==
    IF isOpposite(newDirection, s.direction) THEN s
    ELSE [s EXCEPT !.direction = newDirection]

grow(s) == [s EXCEPT !.snake = Append(@, @[Len(@)])]

resetSnakeKeepingDirection(s) == [s EXCEPT !.snake = INITIAL_SNAKE, !.isAlive = TRUE]

resetSnake(s) == [s EXCEPT !.snake = INITIAL_SNAKE, !.direction = "UP", !.isAlive = TRUE]

\* The tick interval lowered without a floor.
FasterUnfloored(sp) == sp - SPEED_DECREMENT

\* Math.max(MIN_SPEED, s - SPEED_DECREMENT)
Faster(sp) == IF sp - SPEED_DECREMENT > MIN_SPEED THEN sp - SPEED_DECREMENT ELSE MIN_SPEED

\* One run of the collision effect (lines 390-437) in the render that shows s.
CollisionEffect(s, ws, cell) ==
    LET dead == IF ~s.isAlive /\ s.gameState = "PLAYING"
                THEN [s EXCEPT !.lives = @ + 1, !.gameState = "GAMEOVER",
                               !.restarts = @ + 1]
                ELSE s
        head == s.snake[1]
        fed == IF s.fruit # NoFruit /\ head = s.fruit
               THEN spawnFruit([grow(dead) EXCEPT
                                   !.score = @ + 1,
                                   !.speed = Faster(@)],
                               cell)
               ELSE dead
    IN  IF s.gameState # "PLAYING" THEN dead
        ELSE IF Some(ws, head)
        THEN StartCountdown([resetSnake(fed) EXCEPT !.lives = @ + 1])
        ELSE fed

\* The dependencies of the collision effect that are state.
CollisionDeps(s) == <<s.snake, s.isAlive, s.fruit, s.gameState>>

\* The onComplete effect (lines 465-469) runs when gameState or score changed.
CompleteEffect(prev, s) ==
    IF s.gameState = "GAMEOVER" /\ <<prev.gameState, prev.score>> # <<s.gameState, s.score>>
    THEN Append(s.completed, s.score * 100)
    ELSE s.completed

\* The render that shows s after a render that showed prev, its effects, and the
\* renders their state updates cause.
RECURSIVE Render(_, _, _, _)
Render(prev, s, ws, cell) ==
    LET after == IF CollisionDeps(prev) # CollisionDeps(s)
                 THEN CollisionEffect(s, ws, cell) ELSE s
        next == [after EXCEPT !.completed = CompleteEffect(prev, s)]
    IN  IF after = s THEN next ELSE Render(s, next, ws, cell)

\* The cells Math.random can give spawnFruit, kept to a few, that are neither on
\* the snake nor on a wall.
FruitCells == {[x |-> 10, y |-> 9], [x |-> 11, y |-> 9], [x |-> 5, y |-> 5]}

SpawnCells(snk, ws) == {c \in FruitCells : ~Some(snk, c) /\ ~Some(ws, c)}

\* The mount effect: if (!fruit && walls.length > 0) spawnFruit().
Mounted(ws, cell) ==
    IF Len(ws) > 0 THEN spawnFruit(NewSession, cell) ELSE NewSession

\* The interval callback of useGameLoop.
GameLoopTick(s, ws, cell) ==
    IF s.gameState # "PLAYING" THEN s ELSE Render(s, moveSnake(s), ws, cell)

\* The callback of the countdown interval timers[i].
CountdownTick(s, i, ws, cell) ==
    LET count == s.timers[i] - 1
        shown == [s EXCEPT !.countdown = count, !.timers[i] = count]
    IN  IF count = 0
        THEN Render(s, [shown EXCEPT !.timers = SubSeq(@, 1, i - 1) \o SubSeq(@, i + 1, Len(@)),
                                     !.gameState = "PLAYING"], ws, cell)
        ELSE shown

\* The setTimeout callback of the self-collision branch.
RestartTimeout(s, ws, cell) ==
    Render(s, StartCountdown(resetSnake([s EXCEPT !.restarts = @ - 1])), ws, cell)

handleKeyDown(s, d) == IF s.gameState # "PLAYING" THEN s ELSE changeDirection(s, d)

\* A swipe longer than minSwipeDistance towards d.
onTouchEnd(s, d) == changeDirection(s, d)

-----------------------------------------------------------------------------
(***************************************************************************)
(* Snakle: one mounted session (SpecSnakle).                               *)
(***************************************************************************)
MaxTicks == 4

\* The seed prop of the sessions explored (0: not given) and the days they run on.
SnakleSeeds == {0, 1, 4}
Dates == {<<2024, 12, 1>>, <<2024, 12, 25>>}

Session ==
    [snake |-> snake, direction |-> direction, isAlive |-> isAlive, fruit |-> fruit,
     score |-> score, lives |-> lives, speed |-> speed, gameState |-> gameState,
     countdown |-> countdown, timers |-> timers, restarts |-> restarts,
     completed |-> completed]

SessionIs(s) ==
    /\ snake = s.snake /\ direction = s.direction /\ isAlive = s.isAlive
    /\ fruit = s.fruit /\ score = s.score /\ lives = s.lives /\ speed = s.speed
    /\ gameState = s.gameState /\ countdown = s.countdown /\ timers = s.timers
    /\ restarts = s.restarts /\ completed = s.completed

Install(s) ==
    /\ snake' = s.snake /\ direction' = s.direction /\ isAlive' = s.isAlive
    /\ fruit' = s.fruit /\ score' = s.score /\ lives' = s.lives /\ speed' = s.speed
    /\ gameState' = s.gameState /\ countdown' = s.countdown /\ timers' = s.timers
    /\ restarts' = s.restarts /\ completed' = s.completed

LevelIdle ==
    /\ levelSeed = <<>> /\ attempt = 0 /\ generatedWalls = <<>>
    /\ levelPc = "idle" /\ levelResult = <<>>

MastermindIdle ==
    /\ solution = <<>> /\ guesses = <<>> /\ currentGuess = <<>>
    /\ gameStatus = "idle" /\ showWinModal = FALSE /\ mmCompleted = <<>>

\* No feedback computed yet.
NoFeedback == [exactMatches |-> -1, colorMatches |-> -1]

ScoreIdle == scCode = <<>> /\ scGuess = <<>> /\ scFeedback = NoFeedback

CollideIdle ==
    /\ colFrog = [x |-> 0, y |-> 0] /\ colObstacles = <<>>
    /\ colLane = "idle" /\ colResult = "none"

\* findPlatformUnder returning null.
NoPlatform == [x |-> 0, type |-> "none", width |-> 0, sinking |-> FALSE, sinkCycle |-> 0]

\* No collision check has run.
NoCheck ==
    [ran |-> FALSE, laneType |-> "none", platform |-> NoPlatform, lostLife |-> FALSE,
     frameTime |-> -1]

FroggleIdle ==
    /\ frogGameState = "idle" /\ frogLives = 0 /\ frogTime = 0
    /\ frogPos = [x |-> 0, y |-> 0] /\ frogLanes = <<>> /\ previousTime = -1
    /\ frogCompleted = <<>> /\ frameCount = 0 /\ lastCheck = NoCheck
    /\ resetQueued = FALSE

NoStore ==
    [isPlaying |-> FALSE, isGameOver |-> FALSE, startTime |-> 0, elapsedTime |-> 0,
     uncoveredHay |-> 0, coveredHay |-> 0, isMakingHay |-> FALSE, makeHayProgress |-> 0,
     makeHayStartTime |-> -1, isCovering |-> FALSE,
     coverProgress |-> [num |-> 0, den |-> 1], coverStartTime |-> -1,
     coverDuration |-> 0, hayBeingTransferred |-> 0, startUncoveredHay |-> 0,
     startCoveredHay |-> 0,
     weather |-> [current |-> "none", nextChangeAt |-> 0, duration |-> 0]]

HayIdle ==
    /\ hay = NoStore /\ hayNow = 0 /\ hayViews = <<>> /\ hayMounted = {}
    /\ hayLast = [op |-> "none", by |-> 0] /\ hayWaits = 0

NomojiIdle ==
    /\ nomojiSeed = 0 /\ sortOrders = <<>> /\ gameData = <<>> /\ nomoji = <<>>
    /\ nomojiNow = 0
    /\ nomojiCompleted = <<>> /\ nomojiWaits = 0

NoCall == [op |-> "new", args |-> <<>>, value |-> 0]

RngIdle == rngSeed = 0 /\ rngOut = NoCall /\ rngCalls = 0

SeededIdle == seedProp = 0 /\ instances = <<>>

MoreIdle == HayIdle /\ NomojiIdle /\ RngIdle /\ SeededIdle

SnakleIdle ==
    /\ seed = 0 /\ today = <<>> /\ walls = <<>> /\ SessionIs(NewSession)
    /\ ticks = 0 /\ turned = FALSE /\ mounted = FALSE
    /\ twin = NewSession /\ twinWalls = <<>>

\* The first render and its effects.
InitSnakle ==
    /\ seed \in SnakleSeeds
    /\ today \in Dates
    /\ walls = generateLevel(dateSeed(seed, today))
    /\ \E cell \in SpawnCells(INITIAL_SNAKE, walls) : SessionIs(Mounted(walls, cell))
    /\ ticks = 0 /\ turned = FALSE /\ mounted = TRUE
    /\ twin = NewSession /\ twinWalls = <<>>
    /\ LevelIdle /\ MastermindIdle /\ ScoreIdle /\ CollideIdle /\ FroggleIdle /\ MoreIdle

SnakleFrame ==
    UNCHANGED <<seed, today, walls, mounted, twin, twinWalls, levelVars, mastermindVars,
                scoreVars, collideVars, froggleVars, moreVars>>

\* The PLAY button, rendered only in START.
StartGame ==
    /\ mounted /\ gameState = "START"
    /\ Install(startGame(Session))
    /\ turned' = FALSE /\ UNCHANGED ticks /\ SnakleFrame

CountdownFires ==
    /\ mounted
    /\ \E i \in 1..Len(timers) : \E cell \in SpawnCells(snake, walls) :
           Install(CountdownTick(Session, i, walls, cell))
    /\ turned' = FALSE /\ UNCHANGED ticks /\ SnakleFrame

RestartFires ==
    /\ mounted /\ restarts > 0
    /\ \E cell \in SpawnCells(INITIAL_SNAKE, walls) :
           Install(RestartTimeout(Session, walls, cell))
    /\ turned' = FALSE /\ UNCHANGED ticks /\ SnakleFrame

\* The movement interval exists while gameState is PLAYING.
GameLoopFires ==
    /\ mounted /\ gameState = "PLAYING"
    /\ ticks < MaxTicks
    /\ \E cell \in SpawnCells(moveSnake(Session).snake, walls) :
           Install(GameLoopTick(Session, walls, cell))
    /\ ticks' = ticks + 1 /\ turned' = FALSE /\ SnakleFrame

\* turned: an input has changed the direction since the last movement tick.
KeyDown(d) ==
    /\ mounted
    /\ Install(handleKeyDown(Session, d))
    /\ turned' = (turned \/ (gameState = "PLAYING" /\ handleKeyDown(Session, d) # Session))
    /\ UNCHANGED ticks /\ SnakleFrame

TouchEnd(d) ==
    /\ mounted
    /\ Install(onTouchEnd(Session, d))
    /\ turned' = (turned \/ (gameState = "PLAYING" /\ onTouchEnd(Session, d) # Session))
    /\ UNCHANGED ticks /\ SnakleFrame

NextSnakle ==
    \/ StartGame
    \/ CountdownFires
    \/ RestartFires
    \/ GameLoopFires
    \/ \E d \in Directions : KeyDown(d)
    \/ \E d \in Directions : TouchEnd(d)

SpecSnakle == InitSnakle /\ [][NextSnakle]_vars

-----------------------------------------------------------------------------
(***************************************************************************)
(* Snakle: two sessions mounted with the same seed prop and given the same *)
(* start, timer firings, movement ticks and direction inputs (SpecTwin).   *)
(* Each session has its own Math.random and reads its own clock.           *)
(***************************************************************************)
MaxTwinTicks == 2

TwinSeeds == {0, 4}

InitTwin ==
    /\ seed \in TwinSeeds
    /\ today \in Dates
    /\ walls = generateLevel(dateSeed(seed, today))
    /\ \E date \in Dates : twinWalls = generateLevel(dateSeed(seed, date))
    /\ \E cell \in SpawnCells(INITIAL_SNAKE, walls) : SessionIs(Mounted(walls, cell))
    /\ \E cell \in SpawnCells(INITIAL_SNAKE, twinWalls) : twin = Mounted(twinWalls, cell)
    /\ ticks = 0 /\ turned = FALSE /\ mounted = TRUE
    /\ LevelIdle /\ MastermindIdle /\ ScoreIdle /\ CollideIdle /\ FroggleIdle /\ MoreIdle

TwinFrame ==
    UNCHANGED <<seed, today, walls, twinWalls, turned, mounted, levelVars, mastermindVars,
                scoreVars, collideVars, froggleVars, moreVars>>

\* The first countdown interval of a session, if it has one.
FirstTimer(s, ws, cell) == IF Len(s.timers) > 0 THEN CountdownTick(s, 1, ws, cell) ELSE s

\* The pending restart of a session, if it has one.
PendingRestart(s, ws, cell) == IF s.restarts > 0 THEN RestartTimeout(s, ws, cell) ELSE s

TwinStartGame ==
    /\ gameState = "START" /\ twin.gameState = "START"
    /\ Install(startGame(Session)) /\ twin' = startGame(twin)
    /\ UNCHANGED ticks /\ TwinFrame

TwinCountdownFires ==
    /\ Len(timers) > 0 \/ Len(twin.timers) > 0
    /\ \E c1 \in SpawnCells(snake, walls) : Install(FirstTimer(Session, walls, c1))
    /\ \E c2 \in SpawnCells(twin.snake, twinWalls) : twin' = FirstTimer(twin, twinWalls, c2)
    /\ UNCHANGED ticks /\ TwinFrame

TwinRestartFires ==
    /\ restarts > 0 \/ twin.restarts > 0
    /\ \E c1 \in SpawnCells(INITIAL_SNAKE, walls) :
           Install(PendingRestart(Session, walls, c1))
    /\ \E c2 \in SpawnCells(INITIAL_SNAKE, twinWalls) :
           twin' = PendingRestart(twin, twinWalls, c2)
    /\ UNCHANGED ticks /\ TwinFrame

TwinGameLoopFires ==
    /\ gameState = "PLAYING" \/ twin.gameState = "PLAYING"
    /\ ticks < MaxTwinTicks
    /\ \E c1 \in SpawnCells(moveSnake(Session).snake, walls) :
           Install(GameLoopTick(Session, walls, c1))
    /\ \E c2 \in SpawnCells(moveSnake(twin).snake, twinWalls) :
           twin' = GameLoopTick(twin, twinWalls, c2)
    /\ ticks' = ticks + 1 /\ TwinFrame

TwinKeyDown(d) ==
    /\ Install(handleKeyDown(Session, d)) /\ twin' = handleKeyDown(twin, d)
    /\ UNCHANGED ticks /\ TwinFrame

TwinTouchEnd(d) ==
    /\ Install(onTouchEnd(Session, d)) /\ twin' = onTouchEnd(twin, d)
    /\ UNCHANGED ticks /\ TwinFrame

NextTwin ==
    \/ TwinStartGame
    \/ TwinCountdownFires
    \/ TwinRestartFires
    \/ TwinGameLoopFires
    \/ \E d \in Directions : TwinKeyDown(d)
    \/ \E d \in Directions : TwinTouchEnd(d)

SpecTwin == InitTwin /\ [][NextTwin]_vars

\* What a snapshot of a session shows.
Snapshot(s) == <<s.snake, s.fruit, s.score, s.lives, s.speed, s.gameState>>

-----------------------------------------------------------------------------
(***************************************************************************)
(* Snakle: properties.                                                     *)
(***************************************************************************)
\* C1: for one mounted session, whatever the start, movement ticks, direction
\* inputs and timer firings, onComplete is invoked at most once.
C1_OnCompleteAtMostOnce == Len(completed) <= 1

\* C2: GAMEOVER is sticky: once gameState is GAMEOVER no timer firing, tick or
\* input changes gameState, snake, direction, score, lives or countdown.
C2_GameOverIsSticky ==
    [][gameState = "GAMEOVER" =>
           UNCHANGED <<gameState, snake, direction, score, lives, countdown>>]_vars

\* C3: two sessions with the same seed, driven tick for tick by the same inputs,
\* show the same snapshots (snake, fruit, score, lives, speed, status).
C3_SameSnapshots == Snapshot(Session) = Snapshot(twin)

\* C5: a movement tick during PLAYING whose wrapped new head lies on a segment of
\* the snake (length >= 3, tail included) leaves the segment list unchanged, marks
\* the snake dead and moves the session to GAMEOVER within that tick.
C5_SelfCollisionEndsTick ==
    [][(/\ ticks' # ticks
        /\ gameState = "PLAYING"
        /\ Len(snake) >= 3
        /\ \E i \in 1..Len(snake) : snake[i] = NewHead(Session))
       => (snake' = snake /\ ~isAlive' /\ gameState' = "GAMEOVER")]_vars

\* C5 witness: a snake of four or more segments has run into its own tail cell and
\* the session is in GAMEOVER with the snake where it was.
C5_TailCollisionSeen ==
    /\ gameState = "GAMEOVER" /\ ~isAlive /\ lives = 1
    /\ Len(snake) >= 4
    /\ NewHead(Session) = snake[Len(snake)]
    /\ \A i \in 1..(Len(snake) - 1) : snake[i] # NewHead(Session)

\* C6: between two movement ticks at most one directional change takes effect:
\* once an input has changed the direction, later inputs before the next tick
\* leave it alone.
C6_OneTurnPerTick ==
    [][(/\ ticks >= 1 /\ ticks' = ticks
        /\ gameState = "PLAYING" /\ gameState' = "PLAYING"
        /\ turned)
       => direction' = direction]_vars

-----------------------------------------------------------------------------
(***************************************************************************)
(* Snakle: generateLevel run pass by pass of its while loop (SpecLevel).   *)
(***************************************************************************)
MaxLevelSeed == 40

\* The seed strings explored: the numbers 1..MaxLevelSeed and the days of Dates.
LevelSeeds == {Digits(n) : n \in 1..MaxLevelSeed} \cup {dateSeed(0, d) : d \in Dates}

InitLevel ==
    /\ levelSeed \in LevelSeeds
    /\ attempt = 0 /\ generatedWalls = <<>> /\ levelPc = "loop" /\ levelResult = <<>>
    /\ SnakleIdle /\ MastermindIdle /\ ScoreIdle /\ CollideIdle /\ FroggleIdle /\ MoreIdle

LevelFrame ==
    UNCHANGED <<snakleVars, mastermindVars, scoreVars, collideVars, froggleVars, moreVars>>

\* The body of the loop up to finalWalls.
LevelGenerate ==
    /\ levelPc = "loop"
    /\ generatedWalls' = Candidate(levelSeed, attempt)
    /\ levelPc' = "check"
    /\ UNCHANGED <<levelSeed, attempt, levelResult>> /\ LevelFrame

LevelReturnUnchecked ==
    /\ levelPc = "check"
    /\ levelResult' = generatedWalls
    /\ levelPc' = "done"
    /\ UNCHANGED <<levelSeed, attempt, generatedWalls>> /\ LevelFrame

\* if (isConnected(finalWalls, GRID_SIZE)) return finalWalls
LevelReturn ==
    /\ levelPc = "check"
    /\ isConnected(generatedWalls, GRID_SIZE)
    /\ levelResult' = generatedWalls
    /\ levelPc' = "done"
    /\ UNCHANGED <<levelSeed, attempt, generatedWalls>> /\ LevelFrame

\* attempt++, and return [] once the loop condition fails.
LevelRetry ==
    /\ levelPc = "check"
    /\ ~isConnected(generatedWalls, GRID_SIZE)
    /\ attempt' = attempt + 1
    /\ levelPc' = IF attempt + 1 < MAX_ATTEMPTS THEN "loop" ELSE "done"
    /\ levelResult' = <<>>
    /\ UNCHANGED <<levelSeed, generatedWalls>> /\ LevelFrame

NextLevel == LevelGenerate \/ LevelReturn \/ LevelRetry

SpecLevel == InitLevel /\ [][NextLevel]_vars

\* A step of the running function: every step of NextLevel moves levelPc, and one
\* is possible wherever levelPc is not "done".
LevelStep == levelPc # "done" /\ levelPc' \in {"loop", "check", "done"} \ {levelPc}

\* generateLevel is a function that keeps running once called.
SpecLevelRuns == SpecLevel /\ WF_levelPc(LevelStep)

\* The free cells of a wall list, and the cells next to p on the torus.
AllCells == {[x |-> i, y |-> j] : i \in 0..(GRID_SIZE - 1), j \in 0..(GRID_SIZE - 1)}

FreeCells(ws) == {c \in AllCells : ~Some(ws, c)}

NextTo(p) ==
    {[x |-> (p.x + 1) % GRID_SIZE, y |-> p.y], [x |-> (p.x - 1) % GRID_SIZE, y |-> p.y],
     [x |-> p.x, y |-> (p.y + 1) % GRID_SIZE], [x |-> p.x, y |-> (p.y - 1) % GRID_SIZE]}

\* One more step away from the cells seen so far.  r = [seen, frontier].
Spread(r, free) ==
    IF r.frontier = {} THEN r
    ELSE LET new == ((UNION {NextTo(p) : p \in r.frontier}) \cap free) \ r.seen
         IN  [seen |-> r.seen \cup new, frontier |-> new]

\* Every free cell can be walked to from every other free cell.
FreeCellsConnected(ws) ==
    LET free == FreeCells(ws)
        step(r, i) == Spread(r, free)
    IN  \A c \in free :
            c = (CHOOSE d \in free : TRUE) =>
                For(step, [seen |-> {c}, frontier |-> {c}], 1,
                    GRID_SIZE * GRID_SIZE).seen = free

\* C4: the walls generateLevel returns leave the free cells connected under
\* 4-neighbour adjacency with wraparound.
C4_LevelIsConnected == levelPc = "done" => FreeCellsConnected(levelResult)

\* C4 witness: generateLevel returned walls after rejecting an earlier candidate.
C4_ReturnedAfterReject == levelPc = "done" /\ attempt > 0 /\ Len(levelResult) > 0

-----------------------------------------------------------------------------
(***************************************************************************)
(* Mastermind (src/unnamed/part_001): a colour is modelled by its id.      *)
(***************************************************************************)
COLORS == <<"red", "green", "blue", "yellow", "purple", "orange">>

ColorIds == {COLORS[k] : k \in 1..Len(COLORS)}

CODE_LENGTH == 4
MAX_GUESSES == 10

Or32(a, b) == <<Or16(a[1], b[1]), Or16(a[2], b[2])>>

\* One call of the function mulberry32(a) returns: [a, value], a the new state and
\* value the 32-bit numerator of the fraction returned.
mulberry32(a) ==
    LET a1 == Add32(a, <<27947, 31221>>)
        t1 == Mul32(Xor32(a1, Shr32(a1, 15)), Or32(a1, <<0, 1>>))
        t2 == Xor32(t1, Add32(t1, Mul32(Xor32(t1, Shr32(t1, 7)), Or32(t1, <<0, 61>>))))
    IN  [a |-> a1, value |-> Xor32(t2, Shr32(t2, 14))]

\* One round of the loop of generateCode.  g = [a, code].
PushColor(g, i) ==
    LET r == mulberry32(g.a)
    IN  [a |-> r.a, code |-> Append(g.code, COLORS[ScaleFloor(r.value, Len(COLORS)) + 1])]

\* generateCode(seed) for the low 32 bits of seed.
generateCode(a) == For(PushColor, [a |-> a, code |-> <<>>], 0, CODE_LENGTH - 1).code

\* The first pass with the exact positions counted into the frequencies too.
FirstPassCountingAll(f, code, guess, i) ==
    [f EXCEPT !.exactMatches = IF code[i + 1] = guess[i + 1] THEN @ + 1 ELSE @,
              !.codeFreq[code[i + 1]] = @ + 1,
              !.guessFreq[guess[i + 1]] = @ + 1]

\* One round of the first pass.  f = [exactMatches, colorMatches, codeFreq,
\* guessFreq]; a frequency of 0 is a key that is not in the record.
FirstPass(f, code, guess, i) ==
    IF code[i + 1] = guess[i + 1]
    THEN [f EXCEPT !.exactMatches = @ + 1]
    ELSE [f EXCEPT !.codeFreq[code[i + 1]] = @ + 1,
                   !.guessFreq[guess[i + 1]] = @ + 1]

\* One round of the second pass, for the colour COLORS[k].
SecondPass(f, k) ==
    IF f.guessFreq[COLORS[k]] > 0 /\ f.codeFreq[COLORS[k]] > 0
    THEN [f EXCEPT !.colorMatches =
              @ + IF f.guessFreq[COLORS[k]] < f.codeFreq[COLORS[k]]
                  THEN f.guessFreq[COLORS[k]] ELSE f.codeFreq[COLORS[k]]]
    ELSE f

\* The counters before the first pass.
NoMatches ==
    [exactMatches |-> 0, colorMatches |-> 0,
     codeFreq |-> [c \in ColorIds |-> 0], guessFreq |-> [c \in ColorIds |-> 0]]

\* The first pass runs i = 0..3, the second every colour.
checkGuess(code, guess) ==
    LET f1 == FirstPass(FirstPass(FirstPass(FirstPass(NoMatches,
                  code, guess, 0), code, guess, 1), code, guess, 2), code, guess, 3)
        f2 == SecondPass(SecondPass(SecondPass(SecondPass(SecondPass(SecondPass(f1,
                  1), 2), 3), 4), 5), 6)
    IN  [exactMatches |-> f2.exactMatches, colorMatches |-> f2.colorMatches]

-----------------------------------------------------------------------------
(***************************************************************************)
(* Mastermind: checkGuess applied to one code and one guess (SpecScore).   *)
(***************************************************************************)
\* Every sequence of CODE_LENGTH colours.
Codes == [1..CODE_LENGTH -> ColorIds]

InitScore ==
    /\ scCode \in Codes /\ scGuess = <<>> /\ scFeedback = NoFeedback
    /\ SnakleIdle /\ LevelIdle /\ MastermindIdle /\ CollideIdle /\ FroggleIdle /\ MoreIdle

\* checkGuess(scCode, guess) for a guess of the player.
Score ==
    /\ scFeedback = NoFeedback
    /\ \E guess \in Codes :
           /\ scGuess' = guess
           /\ scFeedback' = checkGuess(scCode, guess)
    /\ UNCHANGED <<scCode, snakleVars, levelVars, mastermindVars, collideVars, froggleVars,
                   moreVars>>

NextScore == Score

SpecScore == InitScore /\ [][NextScore]_vars

\* The two-pass reference: positions that agree, then per colour the smaller of
\* its counts among the code's and the guess's positions that do not agree.
RECURSIVE SumOfMins(_, _, _, _)
SumOfMins(k, apart, code, guess) ==
    IF k = 0 THEN 0
    ELSE LET m == Cardinality({i \in apart : code[i] = COLORS[k]})
             n == Cardinality({i \in apart : guess[i] = COLORS[k]})
         IN  (IF m = 0 THEN 0 ELSE IF m < n THEN m ELSE n)
               + SumOfMins(k - 1, apart, code, guess)

TwoPass(code, guess) ==
    LET apart == {i \in 1..CODE_LENGTH : code[i] # guess[i]}
    IN  [exactMatches |-> CODE_LENGTH - Cardinality(apart),
         colorMatches |-> SumOfMins(Len(COLORS), apart, code, guess)]

\* C7: checkGuess agrees with the two-pass reference for every code and guess of
\* length 4 over the 6 colours; RRGG against RGRG gives 2 exact and 2 colour,
\* a code against itself gives 4 and 0, and exact + colour never exceeds 4.
C7_CheckGuessIsTwoPass ==
    scFeedback # NoFeedback =>
        /\ scFeedback = TwoPass(scCode, scGuess)
        /\ scFeedback.exactMatches + scFeedback.colorMatches <= 4
        /\ (scCode = scGuess => scFeedback = [exactMatches |-> 4, colorMatches |-> 0])
        /\ (scCode = <<"red", "red", "green", "green">>
              /\ scGuess = <<"red", "green", "red", "green">>
              => scFeedback = [exactMatches |-> 2, colorMatches |-> 2])

\* C7 witness: RRGG has been scored against RGRG.
C7_ScoredRRGG ==
    /\ scFeedback = [exactMatches |-> 2, colorMatches |-> 2]
    /\ scCode = <<"red", "red", "green", "green">>
    /\ scGuess = <<"red", "green", "red", "green">>

-----------------------------------------------------------------------------
(***************************************************************************)
(* Mastermind: the Game component (SpecMastermind).                        *)
(***************************************************************************)
\* A seed prop as a 32-bit word.
SeedWord(sd) == <<sd \div Half, sd % Half>>

\* The seed props explored, and the low 32 bits of the Date.now() readings that
\* stand in for a seed that is not given.
MastermindSeeds == {1, 2}
Nows == {<<32473, 29184>>}

\* useState(() => generateCode(seed || Date.now()))
Solutions ==
    {generateCode(SeedWord(sd)) : sd \in MastermindSeeds} \cup {generateCode(a) : a \in Nows}

\* The guesses the player enters are kept to the solution and two fixed codes.
Tries(code) ==
    {code, <<"red", "red", "green", "green">>, <<"purple", "orange", "red", "blue">>}

IsPrefix(p, q) == Len(p) <= Len(q) /\ SubSeq(q, 1, Len(p)) = p

InitMastermind ==
    /\ solution \in Solutions
    /\ guesses = <<>> /\ currentGuess = <<>> /\ gameStatus = "playing"
    /\ showWinModal = FALSE /\ mmCompleted = <<>>
    /\ SnakleIdle /\ LevelIdle /\ ScoreIdle /\ CollideIdle /\ FroggleIdle /\ MoreIdle

MastermindFrame ==
    UNCHANGED <<snakleVars, levelVars, scoreVars, collideVars, froggleVars, moreVars>>

\* addPeg without the test of the status.
addPegAnyStatus(color) ==
    /\ IF Len(currentGuess) >= CODE_LENGTH
       THEN UNCHANGED currentGuess
       ELSE currentGuess' = Append(currentGuess, color)
    /\ UNCHANGED <<solution, guesses, gameStatus, showWinModal, mmCompleted>>
    /\ MastermindFrame

addPeg(color) ==
    /\ IF gameStatus # "playing" \/ Len(currentGuess) >= CODE_LENGTH
       THEN UNCHANGED currentGuess
       ELSE currentGuess' = Append(currentGuess, color)
    /\ UNCHANGED <<solution, guesses, gameStatus, showWinModal, mmCompleted>>
    /\ MastermindFrame

removePeg ==
    /\ IF gameStatus # "playing" \/ Len(currentGuess) = 0
       THEN UNCHANGED currentGuess
       ELSE currentGuess' = SubSeq(currentGuess, 1, Len(currentGuess) - 1)
    /\ UNCHANGED <<solution, guesses, gameStatus, showWinModal, mmCompleted>>
    /\ MastermindFrame

\* The test of the else-if branch with > in place of >=.
OutOfGuessesLate(newGuesses) == Len(newGuesses) > MAX_GUESSES

\* newGuesses.length >= 10
OutOfGuesses(newGuesses) == Len(newGuesses) >= MAX_GUESSES

\* The score with the guesses before the winning one counted.
WinScoreOfEarlier(newGuesses) ==
    IF 1000 - (Len(newGuesses) - 1) * 100 > 0 THEN 1000 - (Len(newGuesses) - 1) * 100 ELSE 0

\* Math.max(0, 1000 - newGuesses.length * 100)
WinScore(newGuesses) ==
    IF 1000 - Len(newGuesses) * 100 > 0 THEN 1000 - Len(newGuesses) * 100 ELSE 0

submitGuess ==
    /\ IF Len(currentGuess) # CODE_LENGTH \/ gameStatus # "playing"
       THEN UNCHANGED <<guesses, currentGuess, gameStatus, showWinModal, mmCompleted>>
       ELSE LET newGuesses == Append(guesses, currentGuess)
                exactMatches == checkGuess(solution, currentGuess).exactMatches
            IN  /\ guesses' = newGuesses
                /\ currentGuess' = <<>>
                /\ IF exactMatches = 4
                   THEN /\ gameStatus' = "won" /\ showWinModal' = TRUE
                        /\ mmCompleted' = Append(mmCompleted, WinScore(newGuesses))
                   ELSE IF OutOfGuesses(newGuesses)
                   THEN /\ gameStatus' = "lost" /\ showWinModal' = TRUE
                        /\ mmCompleted' = Append(mmCompleted, 0)
                   ELSE UNCHANGED <<gameStatus, showWinModal, mmCompleted>>
    /\ UNCHANGED solution
    /\ MastermindFrame

NextMastermind ==
    \/ \E color \in ColorIds :
           /\ \E t \in Tries(solution) : IsPrefix(Append(currentGuess, color), t)
           /\ addPeg(color)
    \/ removePeg
    \/ submitGuess

SpecMastermind == InitMastermind /\ [][NextMastermind]_vars

\* C8: submitting a complete guess while playing ends the game as won exactly when
\* the guess equals the solution, otherwise as lost exactly when it is the 10th
\* stored guess, otherwise the game stays playing; a first guess equal to the
\* solution wins with the highest score that can be reached.
C8_SubmitDecides ==
    /\ [](\A i \in 1..Len(mmCompleted) : mmCompleted[i] <= 900)
    /\ [][Len(guesses') = Len(guesses) + 1 =>
            /\ gameStatus = "playing"
            /\ Len(guesses'[Len(guesses')]) = 4
            /\ gameStatus' = IF guesses'[Len(guesses')] = solution THEN "won"
                             ELSE IF Len(guesses') = 10 THEN "lost"
                             ELSE "playing"
            /\ (Len(guesses') = 1 /\ guesses'[1] = solution
                  => mmCompleted' = <<900>>)]_vars

\* C8 witness: the 10th stored guess was wrong and the game is lost.
C8_LostOnTenth ==
    /\ gameStatus = "lost" /\ Len(guesses) = 10
    /\ guesses[10] # solution /\ mmCompleted = <<0>>

-----------------------------------------------------------------------------
(***************************************************************************)
(* Froggle (src/packages/game-04/src/main.tsx).  Lengths are in twentieths *)
(* of a cell (CELL to a cell, so 0.15 is 3 and 3.75 is 75); times are in   *)
(* milliseconds.                                                           *)
(***************************************************************************)
CELL == 20
HITBOX_PADDING == 3
ROWS == 15
COLS == 15
SLOW == 2
MEDIUM == 4
FAST == 6
MODULUS == 233280

\* OBJECT_SIZES
OBJECT_SIZES(type) == IF type \in {"truck", "log"} THEN 2 ELSE 1

\* SeededRNG.next(): the new this.seed; the value returned is this.seed / MODULUS.
\* 9301 s is formed as 100 (93 s) + s to stay within the integers of the checker.
\* The % of JavaScript takes the sign of its left operand: when 9301 s + 49297 is
\* negative the result is minus the remainder of its absolute value.
\* 9301 s + 49297 >= 0 exactly when s >= -5.
FrogNext(sd) ==
    IF sd >= -5
    THEN ((((sd * 93) % MODULUS) * 100) + sd + 49297) % MODULUS
    ELSE -((((((-sd) * 93) % MODULUS) * 100) + (-sd) + MODULUS - 49297) % MODULUS)

\* nextRange(min, max) and choice(arr) read off the seed next() has just produced.
RangeOf(sd, min, max) == ((sd * (max - min + 1)) \div MODULUS) + min
ChoiceOf(sd, arr) ==
    IF ((sd * Len(arr)) \div MODULUS) + 1 \in DOMAIN arr
    THEN arr[((sd * Len(arr)) \div MODULUS) + 1]
    ELSE "undefined"

\* next() > 0.2, > 0.5, < 0.2, < 0.85 read off the seed.
Over02(sd) == 5 * sd > MODULUS
Over05(sd) == 2 * sd > MODULUS
Under02(sd) == 5 * sd < MODULUS
Under085(sd) == 20 * sd < 17 * MODULUS

\* The speed and direction of a moving lane.  prevSpeed = 0 stands for null.
\* The result is [rng, speed, direction].
LaneMotion(rng, prevSpeed, prevDirection, availableSpeeds) ==
    LET r1 == FrogNext(rng)
        r2 == FrogNext(r1)
        r3 == FrogNext(r2)
        r4 == FrogNext(r3)
        m1 == IF prevSpeed = 0 THEN rng ELSE r1
        m2 == FrogNext(m1)
        m3 == FrogNext(m2)
        keep(sp) == sp # prevSpeed
    IN  IF prevSpeed # 0 /\ Over02(r1)
        THEN IF Over05(r2)
             THEN [rng |-> r3, speed |-> ChoiceOf(r3, availableSpeeds),
                   direction |-> IF prevDirection = 1 THEN -1 ELSE 1]
             ELSE [rng |-> r4,
                   speed |-> IF Len(SelectSeq(availableSpeeds, keep)) > 0
                             THEN ChoiceOf(r3, SelectSeq(availableSpeeds, keep))
                             ELSE ChoiceOf(r3, availableSpeeds),
                   direction |-> ChoiceOf(r4, <<-1, 1>>)]
        ELSE [rng |-> m3, speed |-> ChoiceOf(m2, availableSpeeds),
              direction |-> ChoiceOf(m3, <<-1, 1>>)]

\* One obstacle of a lane.  b = [rng, obstacles]; sinking and sinkCycle of an
\* obstacle that is no turtle (undefined in the code) are FALSE and 0.
PushObstacle(b, obsType, count, j) ==
    LET r1 == IF obsType = "log" THEN FrogNext(b.rng) ELSE b.rng
        width == IF obsType # "log" THEN OBJECT_SIZES(obsType)
                 ELSE IF Under02(r1) THEN 1 ELSE IF Under085(r1) THEN 2 ELSE 3
        r2 == FrogNext(r1)
        r3 == IF obsType = "turtle" THEN FrogNext(r2) ELSE r2
    IN  [rng |-> r3,
         obstacles |-> Append(b.obstacles,
             [x |-> (j * COLS * CELL) \div count + RangeOf(r2, 0, 2) * CELL,
              type |-> obsType, width |-> width, sinking |-> FALSE,
              sinkCycle |-> IF obsType = "turtle" THEN RangeOf(r3, 0, 100) ELSE 0])]

\* One round of the loop over the rows.  g = [rng, lanes, prevSpeed, prevDirection].
PushLane(g, i) ==
    IF (i > 0 /\ i < 6) \/ (i > 6 /\ i < 14)
    THEN LET river == i < 6
             m == LaneMotion(g.rng, g.prevSpeed, g.prevDirection,
                             IF river THEN <<SLOW, MEDIUM>> ELSE <<SLOW, MEDIUM, FAST>>)
             r1 == FrogNext(m.rng)
             obsType == ChoiceOf(r1, IF river THEN <<"log", "turtle", "lilypad">>
                                     ELSE <<"car", "truck">>)
             r2 == FrogNext(r1)
             count == RangeOf(r2, 2, 4)
             push(b, j) == PushObstacle(b, obsType, count, j)
             made == For(push, [rng |-> r2, obstacles |-> <<>>], 0, count - 1)
         IN  [rng |-> made.rng,
              lanes |-> Append(g.lanes,
                  [type |-> IF river THEN "river" ELSE "road", obstacles |-> made.obstacles,
                   speed |-> m.speed, direction |-> m.direction, id |-> i]),
              prevSpeed |-> m.speed, prevDirection |-> m.direction]
    ELSE [rng |-> g.rng,
          lanes |-> Append(g.lanes,
              [type |-> IF i = 0 THEN "goal" ELSE "safe", obstacles |-> <<>>,
               speed |-> 0, direction |-> 1, id |-> i]),
          prevSpeed |-> 0, prevDirection |-> 0]

\* The lanes of the initialising effect; lanes[i + 1] is row i.
NewLanes(sd) ==
    For(PushLane, [rng |-> sd, lanes |-> <<>>, prevSpeed |-> 0, prevDirection |-> 0],
        0, ROWS - 1).lanes

\* The overlap test with <= in place of <.
OverlapOrTouch(frog, obs) ==
    LET obsWidth == IF obs.width = 0 THEN 1 ELSE obs.width
    IN  /\ frog.x + HITBOX_PADDING <= obs.x + obsWidth * CELL - HITBOX_PADDING
        /\ frog.x + CELL - HITBOX_PADDING >= obs.x + HITBOX_PADDING

\* frogLeft < obsRight && frogRight > obsLeft
Overlap(frog, obs) ==
    LET obsWidth == IF obs.width = 0 THEN 1 ELSE obs.width
        frogLeft == frog.x + HITBOX_PADDING
        frogRight == frog.x + CELL - HITBOX_PADDING
        obsLeft == obs.x + HITBOX_PADDING
        obsRight == obs.x + obsWidth * CELL - HITBOX_PADDING
    IN  frogLeft < obsRight /\ frogRight > obsLeft

\* The for loop of isColliding from obstacles[k] on, then the lines after it.
RECURSIVE isCollidingFrom(_, _, _, _)
isCollidingFrom(frog, obstacles, laneType, k) ==
    IF k > Len(obstacles) THEN laneType = "river"
    ELSE IF Overlap(frog, obstacles[k]) /\ laneType = "road" THEN TRUE
    ELSE IF Overlap(frog, obstacles[k]) /\ laneType = "river" THEN FALSE
    ELSE isCollidingFrom(frog, obstacles, laneType, k + 1)

isColliding(frog, obstacles, laneType) == isCollidingFrom(frog, obstacles, laneType, 1)

\* The first obstacle the frog overlaps, or NoPlatform.
findPlatformUnder(frog, obstacles) ==
    IF \E k \in 1..Len(obstacles) : Overlap(frog, obstacles[k])
    THEN obstacles[CHOOSE k \in 1..Len(obstacles) :
                       /\ Overlap(frog, obstacles[k])
                       /\ \A j \in 1..(k - 1) : ~Overlap(frog, obstacles[j])]
    ELSE NoPlatform

centerFrogOnPlatform(frog, platform) ==
    IF platform = NoPlatform THEN frog.x
    ELSE LET obsWidth == IF platform.width = 0 THEN 1 ELSE platform.width
         IN  platform.x + (obsWidth * CELL) \div 2 - CELL \div 2

moveFrog(currentPos, dir) ==
    CASE dir = "up" ->
           [currentPos EXCEPT !.y = IF @ - 1 > 0 THEN @ - 1 ELSE 0]
      [] dir = "down" ->
           [currentPos EXCEPT !.y = IF @ + 1 < ROWS - 1 THEN @ + 1 ELSE ROWS - 1]
      [] dir = "left" ->
           [currentPos EXCEPT !.x = IF @ - CELL > 0 THEN @ - CELL ELSE 0]
      [] dir = "right" ->
           [currentPos EXCEPT !.x = IF @ + CELL < (COLS - 1) * CELL THEN @ + CELL
                                    ELSE (COLS - 1) * CELL]
      [] OTHER -> currentPos

-----------------------------------------------------------------------------
(***************************************************************************)
(* Froggle: isColliding applied to one frog, obstacle list and lane type   *)
(* (SpecCollide).                                                          *)
(***************************************************************************)
MaxObstacles == 2
MaxColX == 6

\* Positions half a hitbox apart, so that hitboxes overlap, touch and miss.
ColXs == {k * ((CELL - 2 * HITBOX_PADDING) \div 2) : k \in (-1)..MaxColX}

ColObstacles == {[x |-> x, width |-> w] : x \in ColXs, w \in {1, 2}}

ColLists == UNION {[1..n -> ColObstacles] : n \in 0..MaxObstacles}

LaneTypes == {"safe", "road", "river", "goal"}

InitCollide ==
    /\ colFrog \in {[x |-> x, y |-> 0] : x \in ColXs}
    /\ colObstacles \in ColLists
    /\ colLane \in LaneTypes
    /\ colResult = "none"
    /\ SnakleIdle /\ LevelIdle /\ MastermindIdle /\ ScoreIdle /\ FroggleIdle /\ MoreIdle

Collide ==
    /\ colResult = "none"
    /\ colResult' = IF isColliding(colFrog, colObstacles, colLane) THEN "fatal" ELSE "safe"
    /\ UNCHANGED <<colFrog, colObstacles, colLane, snakleVars, levelVars,
                   mastermindVars, scoreVars, froggleVars, moreVars>>

NextCollide == Collide

SpecCollide == InitCollide /\ [][NextCollide]_vars

\* The frog's box [x + 0.15, x + 0.85] and the box [ox + 0.15, ox + width - 0.15]
\* of obstacle k overlap strictly (in twentieths).
BoxesOverlap(k) ==
    /\ colFrog.x + 3 < colObstacles[k].x + 20 * colObstacles[k].width - 3
    /\ colFrog.x + 17 > colObstacles[k].x + 3

\* C9: isColliding is fatal on a road lane iff the frog's box overlaps some
\* obstacle's box, fatal on a river lane iff it overlaps none, and never fatal on
\* a safe or goal lane.
C9_IsCollidingMatches ==
    colResult # "none" =>
        ((colResult = "fatal") <=>
            \/ colLane = "road" /\ \E k \in 1..Len(colObstacles) : BoxesOverlap(k)
            \/ colLane = "river" /\ ~\E k \in 1..Len(colObstacles) : BoxesOverlap(k))

\* C9 witness: on a river lane the frog misses the first obstacle, overlaps the
\* second and is safe.
C9_SafeOnSecond ==
    /\ colLane = "river" /\ colResult = "safe" /\ Len(colObstacles) = 2
    /\ ~BoxesOverlap(1) /\ BoxesOverlap(2)

-----------------------------------------------------------------------------
(***************************************************************************)
(* Froggle: the Game component (SpecFroggle).  A session is the record of  *)
(* its useState cells and refs; frogPosRef and lanesRef hold what frogPos  *)
(* and lanes hold whenever a handler or an effect reads them.              *)
(***************************************************************************)
MaxFrames == 3

\* The seed props explored, the timestamps of the first animation frame and the
\* gaps between frames, in ms; the long gap is a frame after the page was hidden,
\* when the browser calls no animation frame.
FroggleSeeds == {7, 154}
FirstFrames == {500, 3500}
FrameGaps == {250, 1000, 401000}

INITIAL_LIVES == 3

Frog ==
    [gameState |-> frogGameState, lives |-> frogLives, time |-> frogTime,
     frogPos |-> frogPos, lanes |-> frogLanes, previousTime |-> previousTime,
     completed |-> frogCompleted]

InstallFrog(f) ==
    /\ frogGameState' = f.gameState /\ frogLives' = f.lives /\ frogTime' = f.time
    /\ frogPos' = f.frogPos /\ frogLanes' = f.lanes /\ previousTime' = f.previousTime
    /\ frogCompleted' = f.completed

\* { x: Math.floor(GRID_SIZE.cols / 2), y: GRID_SIZE.rows - 1 }
StartPos == [x |-> (COLS \div 2) * CELL, y |-> ROWS - 1]

\* Math.round of a length, in twentieths.
Round(x) == ((x + CELL \div 2) \div CELL) * CELL

\* handleMove without the test of the game state.
handleMoveAnyState(f, dir) ==
    IF FALSE THEN f
    ELSE LET moved == moveFrog(f.frogPos, dir)
             newPos == [moved EXCEPT !.x = Round(@)]
             targetLane == f.lanes[newPos.y + 1]
             platform == findPlatformUnder(newPos, targetLane.obstacles)
         IN  IF dir \in {"up", "down"}
             THEN IF targetLane.type = "river" /\ platform # NoPlatform
                  THEN [f EXCEPT !.frogPos =
                           [newPos EXCEPT !.x = centerFrogOnPlatform(newPos, platform)]]
                  ELSE [f EXCEPT !.frogPos = newPos]
             ELSE [f EXCEPT !.frogPos = moved]

handleMove(f, dir) ==
    IF f.gameState # "playing" THEN f
    ELSE LET moved == moveFrog(f.frogPos, dir)
             newPos == [moved EXCEPT !.x = Round(@)]
             targetLane == f.lanes[newPos.y + 1]
             platform == findPlatformUnder(newPos, targetLane.obstacles)
         IN  IF dir \in {"up", "down"}
             THEN IF targetLane.type = "river" /\ platform # NoPlatform
                  THEN [f EXCEPT !.frogPos =
                           [newPos EXCEPT !.x = centerFrogOnPlatform(newPos, platform)]]
                  ELSE [f EXCEPT !.frogPos = newPos]
             ELSE [f EXCEPT !.frogPos = moved]

\* cycle > 3 for cycle = (time / 1000 + sinkCycle) % 5, time in ms.
Sinks(time, sinkCycle) == (time + sinkCycle * 1000) % 5000 > 3000

\* lane.speed * deltaTime * lane.direction for deltaTime = dt / 1000.
MoveAmount(lane, dt) == ((lane.speed * dt * CELL) \div 1000) * lane.direction

\* One obstacle of lane after the frame at time.
MovedObstacle(obs, lane, dt, time) ==
    LET newX == obs.x + MoveAmount(lane, dt)
        wrapped == IF lane.direction = 1 /\ newX > COLS * CELL THEN -(obs.width * CELL)
                   ELSE IF lane.direction = -1 /\ newX < -(obs.width * CELL)
                   THEN COLS * CELL
                   ELSE newX
    IN  [obs EXCEPT !.x = wrapped,
                    !.sinking = IF obs.type = "turtle" THEN Sinks(time, obs.sinkCycle)
                                ELSE @]

MovedLane(lane, dt, time) ==
    IF lane.speed = 0 THEN lane
    ELSE [lane EXCEPT !.obstacles =
             [k \in 1..Len(lane.obstacles) |->
                 MovedObstacle(lane.obstacles[k], lane, dt, time)]]

\* The requestAnimationFrame callback called with the timestamp time.
animate(f, time) ==
    IF f.gameState # "playing" THEN f
    ELSE IF f.previousTime = -1 THEN [f EXCEPT !.previousTime = time]
    ELSE LET dt == time - f.previousTime
             currentLanes == [i \in 1..Len(f.lanes) |-> MovedLane(f.lanes[i], dt, time)]
             currentLane == currentLanes[f.frogPos.y + 1]
             dead == isColliding(f.frogPos, currentLane.obstacles, currentLane.type)
         IN  [f EXCEPT !.time = @ + dt,
                       !.lanes = currentLanes,
                       !.frogPos.x = IF currentLane.type = "river" /\ ~dead
                                     THEN @ + MoveAmount(currentLane, dt) ELSE @,
                       !.previousTime = time]

\* The life loss without the test of lives > 1.
LoseLifeUnguarded(f) == [f EXCEPT !.lives = @ - 1, !.frogPos = StartPos]

\* if (lives > 1) ... else ...
LoseLife(f) ==
    IF f.lives > 1
    THEN [f EXCEPT !.lives = @ - 1, !.frogPos = StartPos]
    ELSE [f EXCEPT !.lives = 0, !.gameState = "lost", !.completed = Append(@, 0)]

\* One run of the collision check effect (lines 432-470).
CollisionCheck(f) ==
    LET currentLane == f.lanes[f.frogPos.y + 1]
        hit == isColliding(f.frogPos, currentLane.obstacles, currentLane.type)
        platform == findPlatformUnder(f.frogPos, currentLane.obstacles)
    IN  IF f.gameState # "playing" THEN f
        ELSE IF currentLane.type = "goal"
        THEN [f EXCEPT !.gameState = "won",
                       !.completed = Append(@, f.lives * 100 + 100 + ((-f.time) \div 1000))]
        ELSE IF hit THEN LoseLife(f)
        ELSE IF /\ currentLane.type = "river"
                /\ platform # NoPlatform /\ platform.type = "turtle" /\ platform.sinking
        THEN LoseLife(f)
        ELSE f

\* The collision check after a render and after the renders its updates cause.
RECURSIVE Checked(_)
Checked(f) == IF CollisionCheck(f) = f THEN f ELSE Checked(CollisionCheck(f))

\* What the first collision check after a handler saw and did.
CheckOf(f) ==
    LET currentLane == f.lanes[f.frogPos.y + 1]
    IN  [ran |-> f.gameState = "playing",
         laneType |-> currentLane.type,
         platform |-> findPlatformUnder(f.frogPos, currentLane.obstacles),
         lostLife |-> CollisionCheck(f).lives < f.lives,
         frameTime |-> f.previousTime]

InitFroggle ==
    /\ \E sd \in FroggleSeeds : frogLanes = NewLanes(sd)
    /\ frogGameState = "playing" /\ frogLives = INITIAL_LIVES /\ frogTime = 0
    /\ frogPos = StartPos /\ previousTime = -1 /\ frogCompleted = <<>>
    /\ frameCount = 0 /\ lastCheck = NoCheck /\ resetQueued = FALSE
    /\ SnakleIdle /\ LevelIdle /\ MastermindIdle /\ ScoreIdle /\ CollideIdle /\ MoreIdle

FroggleFrame ==
    UNCHANGED <<snakleVars, levelVars, mastermindVars, scoreVars, collideVars, moreVars>>

\* An arrow key or an on-screen button.
Move(dir) ==
    /\ frogGameState = "playing"
    /\ InstallFrog(Checked(handleMove(Frog, dir)))
    /\ lastCheck' = CheckOf(handleMove(Frog, dir))
    /\ UNCHANGED <<frameCount, resetQueued>> /\ FroggleFrame

\* The browser runs the next animation frame.
Frame ==
    /\ frogGameState = "playing"
    /\ frameCount < MaxFrames
    /\ \E time \in IF previousTime = -1 THEN FirstFrames
                   ELSE {previousTime + gap : gap \in FrameGaps} :
           /\ InstallFrog(Checked(animate(Frog, time)))
           /\ lastCheck' = IF previousTime = -1 THEN lastCheck
                           ELSE CheckOf(animate(Frog, time))
    /\ frameCount' = frameCount + 1 /\ UNCHANGED resetQueued /\ FroggleFrame

NextFroggle ==
    \/ \E dir \in {"up", "down", "left", "right"} : Move(dir)
    \/ Frame

SpecFroggle == InitFroggle /\ [][NextFroggle]_vars

\* C10: a frog on a river lane that overlaps a supporting platform loses a life on
\* the collision check iff that platform is a turtle in its sinking phase, a turtle
\* sinking exactly when ((t / 1000 + sinkCycle) mod 5) > 3 for the timestamp t of
\* the latest animation frame.
C10_SinkingTurtleCostsLife ==
    (/\ lastCheck.ran /\ lastCheck.laneType = "river"
     /\ lastCheck.platform # NoPlatform /\ lastCheck.frameTime >= 0)
    => (lastCheck.lostLife <=>
            /\ lastCheck.platform.type = "turtle"
            /\ (lastCheck.frameTime + lastCheck.platform.sinkCycle * 1000) % 5000 > 3000)

\* C16: every score Froggle passes to onComplete is a non-negative integer:
\* lives * 100 + floor(100 - time) on reaching the goal, 0 on losing the last life.
C16_ScoresAreNonNegative ==
    \A k \in DOMAIN frogCompleted : frogCompleted[k] \in Nat

-----------------------------------------------------------------------------
(***************************************************************************)
(* Hay Girl: the zustand store and the Game component (SpecHay).  Hay is   *)
(* counted in twentieths of a unit and time in ms, which makes the loss    *)
(* per tick (0.15, 0.3, 5) and every progress value exact.                 *)
(***************************************************************************)
HAY == 20

\* GAME_CONSTANTS, the durations in ms.
GAME_DURATION == 90000
BASE_COVER_TIME == 2000
COVER_SCALING_FACTOR == 100
MAKE_HAY_DURATION == 250
TICK_RATE == 100
MAX_FIELD_HAY == 90

WeatherTypes == {"sunny", "cloudy", "windy", "rainy", "snowing"}

\* hayLossRate in twentieths per second, the durations in ms.
WEATHER_CONFIGS ==
    [w \in WeatherTypes |->
        CASE w = "sunny" ->
               [canMakeHay |-> TRUE, hayLossRate |-> 0, minDuration |-> 2000,
                maxDuration |-> 6000,
                possibleTransitions |-> <<"sunny", "sunny", "cloudy", "windy">>]
          [] w = "cloudy" ->
               [canMakeHay |-> FALSE, hayLossRate |-> 0, minDuration |-> 2000,
                maxDuration |-> 3000,
                possibleTransitions |->
                    <<"sunny", "sunny", "sunny", "cloudy", "windy", "rainy">>]
          [] w = "windy" ->
               [canMakeHay |-> FALSE, hayLossRate |-> 30, minDuration |-> 2000,
                maxDuration |-> 3000,
                possibleTransitions |-> <<"sunny", "sunny", "cloudy", "rainy">>]
          [] w = "rainy" ->
               [canMakeHay |-> FALSE, hayLossRate |-> 60, minDuration |-> 2000,
                maxDuration |-> 3000,
                possibleTransitions |->
                    <<"sunny", "sunny", "cloudy", "windy", "snowing", "snowing">>]
          [] w = "snowing" ->
               [canMakeHay |-> FALSE, hayLossRate |-> 1000, minDuration |-> 1000,
                maxDuration |-> 2000,
                possibleTransitions |-> <<"sunny", "sunny", "cloudy">>]]

\* The durations Math.random() is taken to give: the shortest and the middle one.
getRandomDuration(weather) ==
    LET config == WEATHER_CONFIGS[weather]
    IN  {config.minDuration, (config.minDuration + config.maxDuration) \div 2}

\* Any weather at all.
getNextWeatherAny(current) == WeatherTypes

\* The weathers Math.random() can pick.
getNextWeather(current) ==
    LET transitions == WEATHER_CONFIGS[current].possibleTransitions
    IN  {transitions[k] : k \in 1..Len(transitions)}

calculateCoverDuration(h) == BASE_COVER_TIME + (h * COVER_SCALING_FACTOR) \div HAY

\* The store as create() leaves it (lines 147-167).
NewStore ==
    [NoStore EXCEPT !.weather = [current |-> "sunny", nextChangeAt |-> 5000,
                                 duration |-> 5000]]

Max0(x) == IF x > 0 THEN x ELSE 0

storeStartGame(s, now, duration) ==
    [s EXCEPT !.isPlaying = TRUE, !.isGameOver = FALSE, !.startTime = now,
              !.elapsedTime = 0, !.uncoveredHay = 0, !.coveredHay = 0,
              !.isMakingHay = FALSE, !.makeHayProgress = 0, !.makeHayStartTime = -1,
              !.isCovering = FALSE, !.coverProgress = [num |-> 0, den |-> 1],
              !.coverStartTime = -1,
              !.weather = [current |-> "sunny", nextChangeAt |-> duration,
                           duration |-> duration]]

endGame(s) == [s EXCEPT !.isPlaying = FALSE, !.isGameOver = TRUE]

\* Math.min((elapsed / duration) * 100, 100) as the fraction num / den.
Progress(elapsed, duration) ==
    [num |-> 100 * (IF elapsed < duration THEN elapsed ELSE duration), den |-> duration]

\* Math.floor(hayBeingTransferred * progress / 100), in twentieths.
TransferredRest(h, progress) ==
    (h \div HAY) * HAY - ((h * (progress.num \div 100)) \div (progress.den * HAY)) * HAY

Transferred(h, progress) == ((h * (progress.num \div 100)) \div (progress.den * HAY)) * HAY

\* The updates of the hay-making block of tick (lines 211-224).
MakingUpdates(state, u, now) ==
    IF state.isMakingHay /\ state.makeHayStartTime # -1
    THEN LET elapsed == now - state.makeHayStartTime
         IN  IF elapsed >= MAKE_HAY_DURATION
             THEN [u EXCEPT !.isMakingHay = FALSE, !.makeHayProgress = 0,
                            !.makeHayStartTime = -1,
                            !.uncoveredHay =
                                IF state.uncoveredHay + HAY < MAX_FIELD_HAY * HAY
                                THEN state.uncoveredHay + HAY ELSE MAX_FIELD_HAY * HAY]
             ELSE [u EXCEPT !.makeHayProgress = (elapsed * 100) \div MAKE_HAY_DURATION]
    ELSE u

\* The updates of the covering block of tick (lines 226-244).
CoveringUpdates(state, u, now) ==
    IF state.isCovering /\ state.coverStartTime # -1
    THEN LET elapsed == now - state.coverStartTime
             progress == Progress(elapsed, state.coverDuration)
             transferred == Transferred(state.hayBeingTransferred, progress)
             moved == [u EXCEPT !.coveredHay = Max0(state.startCoveredHay + transferred),
                                !.uncoveredHay = Max0(state.startUncoveredHay - transferred)]
         IN  IF elapsed >= state.coverDuration
             THEN [moved EXCEPT !.isCovering = FALSE,
                                !.coverProgress = [num |-> 0, den |-> 1],
                                !.coverStartTime = -1, !.hayBeingTransferred = 0]
             ELSE [moved EXCEPT !.coverProgress = progress]
    ELSE u

lossAmount(weather) == (WEATHER_CONFIGS[weather].hayLossRate * TICK_RATE) \div 1000

\* The hay loss of a tick that keeps what the earlier blocks have written.
LossUpdatesOnUpdates(state, u) ==
    IF ~state.isCovering /\ state.uncoveredHay > 0
       /\ WEATHER_CONFIGS[state.weather.current].hayLossRate > 0
    THEN [u EXCEPT !.uncoveredHay = Max0(@ - lossAmount(state.weather.current))]
    ELSE u

\* The updates of the hay loss block of tick (lines 246-253).
LossUpdates(state, u) ==
    IF ~state.isCovering /\ state.uncoveredHay > 0
       /\ WEATHER_CONFIGS[state.weather.current].hayLossRate > 0
    THEN [u EXCEPT !.uncoveredHay =
             Max0(state.uncoveredHay - lossAmount(state.weather.current))]
    ELSE u

\* The updates of the weather block of tick (lines 255-264).
WeatherUpdates(state, u, newElapsedTime, newWeather, newDuration) ==
    IF newElapsedTime >= state.weather.nextChangeAt
    THEN [u EXCEPT !.weather = [current |-> newWeather,
                                nextChangeAt |-> newElapsedTime + newDuration,
                                duration |-> newDuration]]
    ELSE u

tick(state, now, newWeather, newDuration) ==
    LET newElapsedTime == now - state.startTime
    IN  IF ~state.isPlaying \/ state.isGameOver THEN state
        ELSE IF newElapsedTime >= GAME_DURATION THEN endGame(state)
        ELSE WeatherUpdates(state,
                 LossUpdates(state,
                     CoveringUpdates(state,
                         MakingUpdates(state, [state EXCEPT !.elapsedTime = newElapsedTime],
                                       now),
                         now)),
                 newElapsedTime, newWeather, newDuration)

\* canMakeHay with the weather left out.
canMakeHayAnyWeather(state) ==
    /\ ~(~state.isPlaying \/ state.isGameOver \/ state.isCovering \/ state.isMakingHay)
    /\ ~(state.uncoveredHay >= MAX_FIELD_HAY * HAY)

canMakeHay(state) ==
    /\ ~(~state.isPlaying \/ state.isGameOver \/ state.isCovering \/ state.isMakingHay)
    /\ ~(state.uncoveredHay >= MAX_FIELD_HAY * HAY)
    /\ WEATHER_CONFIGS[state.weather.current].canMakeHay

makeHay(state, now) ==
    IF ~canMakeHay(state) THEN state
    ELSE IF state.uncoveredHay >= MAX_FIELD_HAY * HAY THEN state
    ELSE [state EXCEPT !.isMakingHay = TRUE, !.makeHayProgress = 0,
                       !.makeHayStartTime = now]

startCovering(state, now) ==
    IF ~state.isPlaying \/ state.isGameOver \/ state.isCovering \/ state.uncoveredHay <= 0
    THEN state
    ELSE [state EXCEPT !.isCovering = TRUE, !.coverProgress = [num |-> 0, den |-> 1],
                       !.coverStartTime = now,
                       !.coverDuration = calculateCoverDuration(state.uncoveredHay),
                       !.hayBeingTransferred = state.uncoveredHay,
                       !.startUncoveredHay = state.uncoveredHay,
                       !.startCoveredHay = state.coveredHay]

stopCoveringWhole(state) ==
    IF ~state.isCovering THEN state
    ELSE [state EXCEPT !.isCovering = FALSE, !.coverProgress = [num |-> 0, den |-> 1],
                       !.coverStartTime = -1, !.hayBeingTransferred = 0,
                       !.uncoveredHay =
                           Max0(state.startUncoveredHay - state.hayBeingTransferred)]

stopCovering(state) ==
    IF ~state.isCovering THEN state
    ELSE [state EXCEPT !.isCovering = FALSE, !.coverProgress = [num |-> 0, den |-> 1],
                       !.coverStartTime = -1, !.hayBeingTransferred = 0,
                       !.uncoveredHay =
                           Max0(state.startUncoveredHay
                                - Transferred(state.hayBeingTransferred,
                                              state.coverProgress))]

\* Every Game reads the one store that create() builds when the module loads
\* (line 136): useGameStore() in Game i.
useGameStore(i) == hay

MaxHayWaits == 4
MaxPageWaits == 2

\* The times the clock advances by between two events, in ms.
ClockSteps == {100, 300, 45000}

\* The times the clock advances by when transfers are followed: a transfer takes
\* 2 s and more, and while one runs the clock advances by CoverSteps, too.
CoverClock == {300, 45000}
CoverSteps == {1500}

\* The Games that can be on one page.
GameIds == {1, 2}

\* The onComplete effect of each Game (lines 338-342) after the store went from
\* old to new.
HayCompleted(old, new, views) ==
    [i \in DOMAIN views |->
        IF new.isGameOver
           /\ <<old.isGameOver, old.coveredHay>> # <<new.isGameOver, new.coveredHay>>
        THEN [views[i] EXCEPT !.completed = Append(@, new.coveredHay \div HAY)]
        ELSE views[i]]

\* The screen Game i shows.
Screen(i) ==
    IF hayViews[i].showInstructions THEN "instructions"
    ELSE IF useGameStore(i).isGameOver THEN "gameover"
    ELSE "game"

HayStep(i, op, new, views) ==
    /\ hay' = new
    /\ hayViews' = HayCompleted(hay, new, views)
    /\ hayLast' = [op |-> op, by |-> i]
    /\ UNCHANGED <<hayNow, hayMounted, hayWaits>>
    /\ UNCHANGED <<snakleVars, levelVars, mastermindVars, scoreVars, collideVars,
                   froggleVars, nomojiVars, rngVars, seededVars>>

HayMounts(games) ==
    /\ hay = NewStore /\ hayNow = 0
    /\ hayMounted = games
    /\ hayViews = [i \in hayMounted |-> [showInstructions |-> TRUE, completed |-> <<>>]]
    /\ hayLast = [op |-> "none", by |-> 0] /\ hayWaits = 0
    /\ SnakleIdle /\ LevelIdle /\ MastermindIdle /\ ScoreIdle /\ CollideIdle /\ FroggleIdle
    /\ NomojiIdle /\ RngIdle /\ SeededIdle

\* One Game on the page.
InitHay == HayMounts({1})

\* Two Games on one page.
InitHayPage == HayMounts(GameIds)

\* Time passes, by one of steps.
HayWaitBy(steps) ==
    /\ hayWaits < (IF hayMounted = {1} THEN MaxHayWaits ELSE MaxPageWaits)
    /\ \E d \in steps : hayNow' = hayNow + d
    /\ hayWaits' = hayWaits + 1
    /\ hayLast' = [op |-> "wait", by |-> 0]
    /\ UNCHANGED <<hay, hayViews, hayMounted>>
    /\ UNCHANGED <<snakleVars, levelVars, mastermindVars, scoreVars, collideVars,
                   froggleVars, nomojiVars, rngVars, seededVars>>

\* The Start Game button of Game i.
handleStart(i) ==
    /\ i \in hayMounted /\ Screen(i) = "instructions"
    /\ \E duration \in getRandomDuration("sunny") :
           HayStep(i, "startGame", storeStartGame(hay, hayNow, duration),
                   [hayViews EXCEPT ![i].showInstructions = FALSE])

\* The Play Again button of Game i.
handlePlayAgain(i) ==
    /\ i \in hayMounted /\ Screen(i) = "gameover"
    /\ \E duration \in getRandomDuration("sunny") :
           HayStep(i, "startGame", storeStartGame(hay, hayNow, duration),
                   [hayViews EXCEPT ![i].showInstructions = TRUE])

\* The Make Hay button of Game i: disabled={!store.canMakeHay()}.
MakeHay(i) ==
    /\ i \in hayMounted /\ Screen(i) = "game" /\ canMakeHay(useGameStore(i))
    /\ HayStep(i, "makeHay", makeHay(hay, hayNow), hayViews)

\* The Cover Hay button of Game i, shown while no covering is in progress:
\* disabled={store.uncoveredHay <= 0 || store.isCovering}.
StartCovering(i) ==
    /\ i \in hayMounted /\ Screen(i) = "game" /\ ~useGameStore(i).isCovering
    /\ ~(useGameStore(i).uncoveredHay <= 0 \/ useGameStore(i).isCovering)
    /\ HayStep(i, "startCovering", startCovering(hay, hayNow), hayViews)

\* The Stop Covering button of Game i, shown while covering is in progress.
StopCovering(i) ==
    /\ i \in hayMounted /\ Screen(i) = "game" /\ useGameStore(i).isCovering
    /\ HayStep(i, "stopCovering", stopCovering(hay), hayViews)

\* The tick interval of Game i (lines 326-336), live while the store is playing.
TickFires(i) ==
    /\ i \in hayMounted /\ hay.isPlaying
    /\ IF hayNow - hay.startTime >= hay.weather.nextChangeAt
       THEN \E newWeather \in getNextWeather(hay.weather.current) :
                \E newDuration \in getRandomDuration(newWeather) :
                    HayStep(i, "tick", tick(hay, hayNow, newWeather, newDuration),
                            hayViews)
       ELSE HayStep(i, "tick", tick(hay, hayNow, "sunny", 0), hayViews)

HayWait == HayWaitBy(ClockSteps)

CoverWait == HayWaitBy(CoverClock \cup (IF hay.isCovering THEN CoverSteps ELSE {}))

HayEvents ==
    \E i \in GameIds :
        \/ handleStart(i) \/ handlePlayAgain(i)
        \/ MakeHay(i) \/ StartCovering(i) \/ StopCovering(i)
        \/ TickFires(i)

NextHay == HayWait \/ HayEvents

SpecHay == InitHay /\ [][NextHay]_vars

\* One Game, with the clock steps that follow a transfer.
NextHayCover == CoverWait \/ HayEvents

SpecHayCover == InitHay /\ [][NextHayCover]_vars

SpecHayPage == InitHayPage /\ [][NextHay]_vars

-----------------------------------------------------------------------------
(***************************************************************************)
(* Hay Girl: properties.                                                   *)
(***************************************************************************)
\* A tick has just run on a store that was playing under a weather that loses
\* hay, with no covering in progress and hay on the field.
DrainingTick ==
    /\ hayLast'.op = "tick"
    /\ hay.isPlaying /\ ~hay.isGameOver
    /\ WEATHER_CONFIGS[hay.weather.current].hayLossRate > 0
    /\ ~hay.isCovering /\ hay.uncoveredHay > 0

\* uncoveredHay goes down by hayLossRate x 0.1, clamped at 0.
Drained ==
    /\ hay'.uncoveredHay =
           Max0(hay.uncoveredHay
                - (WEATHER_CONFIGS[hay.weather.current].hayLossRate \div 10))
    /\ hay'.uncoveredHay < hay.uncoveredHay

C12_MakingExcludesCovering == ~(hay.isMakingHay /\ hay.isCovering)

Observed(i) ==
    <<useGameStore(i).uncoveredHay, useGameStore(i).coveredHay,
      useGameStore(i).weather.current, useGameStore(i).isMakingHay,
      useGameStore(i).isCovering, useGameStore(i).isPlaying,
      useGameStore(i).isGameOver>>

C17_GamesAreIndependent ==
    [][\A i \in hayMounted : hayLast'.by # i => Observed(i)' = Observed(i)]_vars


-----------------------------------------------------------------------------
(***************************************************************************)
(* Nomoji (src/packages/ui/tailwind.config.mjs, from line 42).  Two of     *)
(* three candidate emojis are shown among fifty; the player names the one  *)
(* that is missing, in at most two guesses.                                *)
(***************************************************************************)
\* Lines 49-180.  Each emoji is written as its first code point; the two entries
\* that carry a variation selector (9785, 9760) are told apart by it as well.
EMOJI_POOL ==
    <<
      128512, 128515, 128516, 128513, 128518, 128517, 129315, 128514, 128578, 128579,
      128521, 128522, 128519, 129392, 128525, 129321, 128536, 128535, 128538, 128537,
      128523, 128539, 128540, 129322, 128541, 129297, 129303, 129325, 129323, 129300,
      129296, 129320, 128528, 128529, 128566, 128527, 128530, 128580, 128556, 129317,
      128524, 128532, 128554, 129316, 128564, 128567, 129298, 129301, 129314, 129326,
      129319, 129397, 129398, 129396, 128565, 129327, 129312, 129395, 128526, 129299,
      129488, 128533, 128543, 128577, 9785, 128558, 128559, 128562, 128563, 129402,
      128550, 128551, 128552, 128560, 128549, 128546, 128557, 128561, 128534, 128547,
      128542, 128531, 128553, 128555, 129393, 128548, 128545, 128544, 129324, 128520,
      128127, 128128, 9760, 128169, 129313, 128121, 128122, 128123, 128125, 128126,
      129302, 127875, 128570, 128568, 128569, 128571, 128572, 128573, 128576, 128575,
      128574, 128054, 128049, 128045, 128057, 128048, 129418, 128059, 128060, 128040,
      128047, 129409, 128046, 128055, 128056, 128053, 128020, 128039, 128038, 128036
    >>

LCG_MODULUS == 233280
DISPLAY_COUNT == 50

\* One call of seededRandom (lines 251-254): the new s; the number returned is
\* s / 233280.  9301 = 93 * 100 + 1 keeps the product within 32 bits.
seededRandom(s) ==
    (((((s % LCG_MODULUS) * 93) % LCG_MODULUS) * 100) + (s % LCG_MODULUS) + 49297)
        % LCG_MODULUS

\* Math.floor(seededRandom() * n) for the call that left the generator at s.
FloorOf(s, n) == (s * n) \div LCG_MODULUS

DrawOnce(s, i) == seededRandom(s)

\* The generator after n more calls.
Drawn(s, n) == For(DrawOnce, s, 1, n)

SetOf(list) == {list[i] : i \in DOMAIN list}

Rotated(list, r) ==
    [i \in 1..Len(list) |-> list[((i - 1 + r) % Len(list)) + 1]]

Reversed(list) == [i \in 1..Len(list) |-> list[Len(list) + 1 - i]]

\* array.sort(() => seededRandom() - 0.5): the comparator answers at random, so
\* the order that comes out and the number of times the comparator is called
\* are the engine's choice.  An order is a rotation, read forwards or
\* backwards, and a number of comparator calls for each element.
Rotations == {0, 1, 127}
CallsPerElement == {1, 5}
SortOrders == [rotate : Rotations, reverse : BOOLEAN, calls : CallsPerElement]

sort(list, order) ==
    IF order.reverse THEN Reversed(Rotated(list, order.rotate))
    ELSE Rotated(list, order.rotate)

\* The generator after that sort.
Sorted(s, list, order) == Drawn(s, order.calls * Len(list))

\* allThreeEmojis.filter((_, i) => i !== missingIndex), line 264.
presentEmojisUnfiltered(allThreeEmojis, missingIndex) == allThreeEmojis

presentEmojis(allThreeEmojis, missingIndex) ==
    LET kept == {i \in 0..(Len(allThreeEmojis) - 1) : i # missingIndex}
        Nth(n) == CHOOSE i \in kept : Cardinality({j \in kept : j < i}) = n - 1
    IN  [n \in 1..Cardinality(kept) |-> allThreeEmojis[Nth(n) + 1]]

\* One round of the while loop of lines 270-273.
PushRandom(otherEmojis, st) ==
    LET s == seededRandom(st.s)
    IN  [s |-> s,
         displayEmojis |->
             Append(st.displayEmojis, otherEmojis[FloorOf(s, Len(otherEmojis)) + 1])]

\* Lines 242-278, for a seed that is given; shuffle and mix are the orders the
\* two sorts come out in.
generateGameEmojis(sd, shuffle, mix) ==
    LET shuffled == sort(EMOJI_POOL, shuffle)
        allThreeEmojis == SubSeq(shuffled, 1, 3)
        s1 == seededRandom(Sorted(sd, EMOJI_POOL, shuffle))
        missingIndex == FloorOf(s1, 3)
        missingEmoji == allThreeEmojis[missingIndex + 1]
        present == presentEmojis(allThreeEmojis, missingIndex)
        otherEmojis == SubSeq(shuffled, 4, Len(shuffled))
        Push(st, i) == PushRandom(otherEmojis, st)
        filled == For(Push, [s |-> s1, displayEmojis |-> <<present[1], present[2]>>],
                      3, DISPLAY_COUNT)
    IN  [allThreeEmojis |-> allThreeEmojis,
         missingEmoji |-> missingEmoji,
         displayEmojis |-> sort(filled.displayEmojis, mix)]

\* The useState cells of one Game, lines 281-286; timeMs is -1 for null.
NewGame(now) ==
    [startTime |-> now, guesses |-> <<>>, showResults |-> FALSE, isSuccess |-> FALSE,
     timeMs |-> -1, currentTime |-> now]

\* The score handleGuess reports, line 316.
GuessScore(correct, elapsed) == IF correct THEN elapsed \div 1000 ELSE 0

\* handleGuess without the test of showResults.
handleGuessAnyTime(game, reported, emoji, now) ==
    IF FALSE THEN [game |-> game, completed |-> reported]
    ELSE LET newGuesses == Append(game.guesses, emoji)
             elapsed == now - game.startTime
             correct == emoji = gameData.missingEmoji
         IN  IF correct \/ Len(newGuesses) >= 2
             THEN [game |-> [game EXCEPT !.guesses = newGuesses,
                                         !.isSuccess = correct,
                                         !.timeMs = IF correct THEN elapsed ELSE -1,
                                         !.showResults = TRUE],
                   completed |-> Append(reported, GuessScore(correct, elapsed))]
             ELSE [game |-> [game EXCEPT !.guesses = newGuesses,
                                         !.isSuccess = correct],
                   completed |-> reported]

\* Lines 299-319: the Game after the guess, and the scores it has reported.
handleGuess(game, reported, emoji, now) ==
    IF game.showResults THEN [game |-> game, completed |-> reported]
    ELSE LET newGuesses == Append(game.guesses, emoji)
             elapsed == now - game.startTime
             correct == emoji = gameData.missingEmoji
         IN  IF correct \/ Len(newGuesses) >= 2
             THEN [game |-> [game EXCEPT !.guesses = newGuesses,
                                         !.isSuccess = correct,
                                         !.timeMs = IF correct THEN elapsed ELSE -1,
                                         !.showResults = TRUE],
                   completed |-> Append(reported, GuessScore(correct, elapsed))]
             ELSE [game |-> [game EXCEPT !.guesses = newGuesses,
                                         !.isSuccess = correct],
                   completed |-> reported]

\* generateGameEmojis applied to one seed under one pair of sort orders.
EmojiSeeds == {0, 1, 42, 12345, 233279}

NomojiFrame ==
    UNCHANGED <<snakleVars, levelVars, mastermindVars, scoreVars, collideVars,
                froggleVars, hayVars, rngVars, seededVars>>

InitEmojis ==
    /\ nomojiSeed \in EmojiSeeds
    /\ sortOrders \in SortOrders \X SortOrders
    /\ gameData = <<>> /\ nomoji = <<>> /\ nomojiNow = 0
    /\ nomojiCompleted = <<>> /\ nomojiWaits = 0
    /\ SnakleIdle /\ LevelIdle /\ MastermindIdle /\ ScoreIdle /\ CollideIdle /\ FroggleIdle
    /\ HayIdle /\ RngIdle /\ SeededIdle

Generate ==
    /\ gameData = <<>>
    /\ gameData' = generateGameEmojis(nomojiSeed, sortOrders[1], sortOrders[2])
    /\ UNCHANGED <<nomojiSeed, sortOrders, nomoji, nomojiNow, nomojiCompleted,
                   nomojiWaits>>
    /\ NomojiFrame

NextEmojis == Generate

SpecEmojis == InitEmojis /\ [][NextEmojis]_vars

MaxNomojiWaits == 3

NomojiSeeds == {42, 12345}

\* The sort orders of the plays: the rotations, read forwards.
PlayOrders == {order \in SortOrders : ~order.reverse /\ order.calls = 1}

\* The times the clock advances by between two events, in ms.
GuessGaps == {400, 1000}

\* The same game is played twice, by two players who open it at the same time.
Plays == {1, 2}

\* The first render of each play.
InitNomoji ==
    /\ nomojiSeed \in NomojiSeeds
    /\ \E order \in PlayOrders : sortOrders = <<order, order>>
    /\ gameData = generateGameEmojis(nomojiSeed, sortOrders[1], sortOrders[2])
    /\ nomojiNow = 0
    /\ nomoji = [p \in Plays |-> NewGame(nomojiNow)]
    /\ nomojiCompleted = [p \in Plays |-> <<>>]
    /\ nomojiWaits = 0
    /\ SnakleIdle /\ LevelIdle /\ MastermindIdle /\ ScoreIdle /\ CollideIdle /\ FroggleIdle
    /\ HayIdle /\ RngIdle /\ SeededIdle

\* Time passes, and the interval of lines 290-297 of every Game that does not
\* show its results yet has fired since.
NomojiWait ==
    /\ nomojiWaits < MaxNomojiWaits
    /\ \E d \in GuessGaps : nomojiNow' = nomojiNow + d
    /\ nomojiWaits' = nomojiWaits + 1
    /\ nomoji' = [p \in Plays |->
                     IF nomoji[p].showResults THEN nomoji[p]
                     ELSE [nomoji[p] EXCEPT !.currentTime = nomojiNow']]
    /\ UNCHANGED <<nomojiSeed, sortOrders, gameData, nomojiCompleted>>
    /\ NomojiFrame

\* A guess button (lines 351-375): rendered until the results are shown, one per
\* candidate, disabled once its emoji was guessed.
Guess(p, emoji) ==
    /\ ~nomoji[p].showResults
    /\ emoji \in SetOf(gameData.allThreeEmojis) \ SetOf(nomoji[p].guesses)
    /\ LET after == handleGuess(nomoji[p], nomojiCompleted[p], emoji, nomojiNow)
       IN  /\ nomoji' = [nomoji EXCEPT ![p] = after.game]
           /\ nomojiCompleted' = [nomojiCompleted EXCEPT ![p] = after.completed]
    /\ UNCHANGED <<nomojiSeed, sortOrders, gameData, nomojiNow, nomojiWaits>>
    /\ NomojiFrame

NextNomoji ==
    \/ NomojiWait
    \/ \E p \in Plays :
           \E emoji \in SetOf(gameData.allThreeEmojis) : Guess(p, emoji)

SpecNomoji == InitNomoji /\ [][NextNomoji]_vars

-----------------------------------------------------------------------------
(***************************************************************************)
(* Nomoji: properties.                                                     *)
(***************************************************************************)
\* The play was won with its n-th guess.
WonWith(p, n) ==
    /\ nomoji[p].showResults /\ nomoji[p].isSuccess
    /\ Len(nomoji[p].guesses) = n

\* C14: a correct first guess is reported with a strictly higher score than a
\* correct second guess made later in the same game.
C14_FirstGuessScoresHigher ==
    \A p \in Plays, q \in Plays :
        (/\ WonWith(p, 1) /\ WonWith(q, 2)
         /\ nomoji[q].timeMs > nomoji[p].timeMs)
            => nomojiCompleted[p][1] > nomojiCompleted[q][1]

-----------------------------------------------------------------------------
(***************************************************************************)
(* Snakle: the countdown.                                                  *)
(***************************************************************************)
\* An arrow key or a swipe arrives.
DirectionInput == \E d \in Directions : KeyDown(d) \/ TouchEnd(d)

\* C19: COUNTDOWN is non-interactive: no arrow key and no touch swipe changes any
\* state of the session, in particular not the direction.
C19_CountdownIgnoresInput ==
    [][(gameState = "COUNTDOWN" /\ DirectionInput) => Session' = Session]_vars

\* C20: PLAYING is entered only from a COUNTDOWN whose counter started at 3 and
\* came down one by one to 0; no movement tick runs in START, COUNTDOWN or
\* GAMEOVER; at most one countdown timer is live at any time.
C20_CountdownBeforePlaying ==
    [][/\ (gameState # "PLAYING" /\ gameState' = "PLAYING")
              => (gameState = "COUNTDOWN" /\ countdown = 1 /\ countdown' = 0)
       /\ (gameState # "COUNTDOWN" /\ gameState' = "COUNTDOWN")
              => (countdown' = 3 /\ timers' = <<3>>)
       /\ (gameState = "COUNTDOWN" /\ gameState' = "COUNTDOWN")
              => (countdown' \in {countdown, countdown - 1} /\ timers' = <<countdown'>>)
       /\ ticks' # ticks => gameState = "PLAYING"
       /\ Len(timers') <= 1]_vars

\* PLAYING was entered a second time, after the countdown that followed a lost
\* life.
C20_PlayingAgain ==
    /\ gameState = "PLAYING" /\ countdown = 0 /\ timers = <<>>
    /\ lives >= 1 /\ ticks >= 1


-----------------------------------------------------------------------------
(***************************************************************************)
(* Snakle: the Game is taken off the page (SpecTeardown).  React runs the  *)
(* cleanups the effects returned: clearInterval of useGameLoop (line 249)  *)
(* and removeEventListener (line 462).  The countdown intervals and the    *)
(* restart timeout are created in startGame and in the collision effect,   *)
(* which return no cleanup.  React drops a state update of a component     *)
(* that is no longer mounted and runs none of its effects.                 *)
(***************************************************************************)
Unmount ==
    /\ mounted /\ mounted' = FALSE
    /\ UNCHANGED <<seed, today, walls, snake, direction, isAlive, fruit, score, lives,
                   speed, gameState, countdown, timers, restarts, completed, ticks,
                   turned, twin, twinWalls>>
    /\ UNCHANGED <<levelVars, mastermindVars, scoreVars, collideVars, froggleVars,
                   moreVars>>

\* What a callback can change after the teardown: the timers it holds.
LateFrame ==
    /\ UNCHANGED <<seed, today, walls, snake, direction, isAlive, fruit, score, lives,
                   speed, gameState, countdown, completed, ticks, turned, mounted,
                   twin, twinWalls>>
    /\ UNCHANGED <<levelVars, mastermindVars, scoreVars, collideVars, froggleVars,
                   moreVars>>

\* The callback of the countdown interval pending[i], its state updates dropped.
LateCountdownTick(pending, i) ==
    IF pending[i] - 1 = 0
    THEN SubSeq(pending, 1, i - 1) \o SubSeq(pending, i + 1, Len(pending))
    ELSE [pending EXCEPT ![i] = @ - 1]

\* A countdown interval fires after the teardown.
LateCountdownFires ==
    /\ ~mounted
    /\ \E i \in 1..Len(timers) : timers' = LateCountdownTick(timers, i)
    /\ UNCHANGED restarts /\ LateFrame

\* The restart timeout fires after the teardown and starts a countdown interval.
LateRestartFires ==
    /\ ~mounted /\ restarts > 0
    /\ restarts' = restarts - 1
    /\ timers' = Append(timers, 3)
    /\ LateFrame

NextTeardown ==
    \/ NextSnakle
    \/ Unmount
    \/ LateCountdownFires
    \/ LateRestartFires

SpecTeardown == InitSnakle /\ [][NextTeardown]_vars

\* C18: after the Game has unmounted none of its scheduled callbacks fires
\* again: the movement interval, every countdown interval and the pending
\* restart timeout are cancelled, the key listener is removed, no state changes
\* and onComplete is not called.
C18_NothingFiresAfterUnmount ==
    [][~mounted => (/\ timers = <<>> /\ restarts = 0
                    /\ UNCHANGED <<timers, restarts, completed>>
                    /\ Session' = Session)]_vars


-----------------------------------------------------------------------------
(***************************************************************************)
(* Snakle: the wall collision.                                             *)
(***************************************************************************)
\* The movement tick that is about to run puts the head on a wall.
HeadLandsOnWall ==
    /\ gameState = "PLAYING" /\ isAlive
    /\ ~HitsBody(snake, NewHead(Session))
    /\ Some(walls, NewHead(Session))

\* C21: when the head lands on a wall cell during PLAYING the session goes to
\* COUNTDOWN, the snake is reset to its initial segments, heading UP and alive,
\* score, speed and fruit are unchanged and lives increases by exactly 1.
C21_WallCollisionIsSoftReset ==
    [][(ticks' # ticks /\ HeadLandsOnWall)
           => (/\ gameState' = "COUNTDOWN"
               /\ snake' = INITIAL_SNAKE /\ direction' = "UP" /\ isAlive'
               /\ score' = score /\ speed' = speed /\ fruit' = fruit
               /\ lives' = lives + 1)]_vars

\* A countdown runs after the snake ran into a wall on a movement tick: no game
\* over came before it.
C21_ResetAfterWall ==
    /\ gameState = "COUNTDOWN" /\ countdown = 3 /\ timers = <<3>>
    /\ lives = 1 /\ completed = <<>> /\ ticks >= 1
    /\ snake = INITIAL_SNAKE /\ direction = "UP"


-----------------------------------------------------------------------------
(***************************************************************************)
(* Snakle: generateLevel terminates (SpecLevelRuns).                       *)
(***************************************************************************)
\* What generateLevel has returned: the candidate of the first attempt that
\* passes the connectivity check, or no wall at all after MAX_ATTEMPTS failures.
ReturnedFirstConnected ==
    /\ \A k \in 0..(attempt - 1) :
           \A failed \in {Candidate(levelSeed, k)} : ~isConnected(failed, GRID_SIZE)
    /\ IF attempt < MAX_ATTEMPTS
       THEN /\ levelResult = Candidate(levelSeed, attempt)
            /\ isConnected(levelResult, GRID_SIZE)
       ELSE levelResult = <<>>

\* C22: generateLevel always terminates; it tries the attempts 0, 1, ..., 99 in
\* order, each on the walls drawn from the seed "<seed>-<attempt>", returns the
\* first candidate that passes the connectivity check and the empty wall list
\* when all 100 fail, and never a candidate that failed the check.
C22_GenerateLevelTerminates ==
    /\ <>(levelPc = "done")
    /\ [](attempt \in 0..MAX_ATTEMPTS)
    /\ [][/\ attempt' \in {attempt, attempt + 1}
          /\ levelPc' = "check" => generatedWalls' = Candidate(levelSeed, attempt)
          /\ levelPc = "done" => UNCHANGED levelVars]_vars
    /\ [](levelPc = "done" => ReturnedFirstConnected)

\* generateLevel returned walls after the candidates of two attempts had failed
\* the check.
C22_ReturnedAfterRetries ==
    /\ levelPc = "done" /\ attempt >= 2 /\ levelResult # <<>>
    /\ levelResult = Candidate(levelSeed, attempt)


-----------------------------------------------------------------------------
(***************************************************************************)
(* Hay Girl: transfers to the barn.                                        *)
(***************************************************************************)
\* Math.floor(h * progress / 100) for h in twentieths of a hay, in twentieths.
FloorOfShare(h, progress) == HAY * ((h * progress.num) \div (100 * progress.den * HAY))

\* C23: stopCovering applies the partial transfer pro rata and conserves hay: the
\* amount moved is floor(hayBeingTransferred * progress / 100) for the progress of
\* the last tick, and afterwards coveredHay + uncoveredHay is startCoveredHay +
\* startUncoveredHay of the transfer.
C23_CancelConservesHay ==
    [][(hayLast'.op = "stopCovering" /\ hay.isCovering)
           => LET moved == FloorOfShare(hay.hayBeingTransferred, hay.coverProgress)
              IN  /\ ~hay'.isCovering
                  /\ hay'.coveredHay = hay.startCoveredHay + moved
                  /\ hay'.uncoveredHay = hay.startUncoveredHay - moved
                  /\ hay'.coveredHay + hay'.uncoveredHay
                         = hay.startCoveredHay + hay.startUncoveredHay]_vars

\* A transfer of two hay was cancelled after one of them had reached the barn.
C23_CancelledHalfway ==
    /\ hayLast.op = "stopCovering"
    /\ hay.coveredHay = HAY /\ hay.uncoveredHay = HAY
    /\ hay.startUncoveredHay = 2 * HAY /\ ~hay.isCovering

\* C24: within one session, between two startGame calls, coveredHay never
\* decreases, whatever tick, makeHay, startCovering and stopCovering do and
\* whatever the weather is.
C24_BarnHayIsSafe ==
    [][hayLast'.op # "startGame" => hay'.coveredHay >= hay.coveredHay]_vars

\* Hay was moved to the barn by two transfers, in rain or worse.
C24_BarnFilledTwice ==
    /\ hay.coveredHay >= 2 * HAY /\ hay.startCoveredHay >= HAY
    /\ hay.weather.current # "sunny"


-----------------------------------------------------------------------------
(***************************************************************************)
(* Hay Girl: making hay.                                                   *)
(***************************************************************************)
\* The tick that is about to run completes a hay-making.
CompletesMaking ==
    /\ hay.isPlaying /\ ~hay.isGameOver /\ hayNow - hay.startTime < GAME_DURATION
    /\ hay.isMakingHay /\ hay.makeHayStartTime # -1
    /\ hayNow - hay.makeHayStartTime >= MAKE_HAY_DURATION

\* C27: every hay-making that runs to completion raises uncoveredHay over its
\* value before the completing tick by exactly 1, or to the cap of 90, whatever
\* the weather at the completing tick.
C27_MadeHayIsAdded ==
    [][(hayLast'.op = "tick" /\ CompletesMaking)
           => hay'.uncoveredHay = IF hay.uncoveredHay + HAY < MAX_FIELD_HAY * HAY
                                  THEN hay.uncoveredHay + HAY
                                  ELSE MAX_FIELD_HAY * HAY]_vars


-----------------------------------------------------------------------------
(***************************************************************************)
(* Hay Girl: the store on its own.  Each action of the store (lines        *)
(* 169-311) is called in whatever state the store is in, as the store      *)
(* itself allows: the guards are the ones the actions carry, not the ones  *)
(* of the buttons of Game.                                                 *)
(***************************************************************************)
StoreCall(op, new) == HayStep(0, op, new, hayViews)

\* startGame()
StoreStartGame ==
    \E duration \in getRandomDuration("sunny") :
        StoreCall("startGame", storeStartGame(hay, hayNow, duration))

\* tick()
StoreTick ==
    IF hayNow - hay.startTime >= hay.weather.nextChangeAt
    THEN \E newWeather \in getNextWeather(hay.weather.current) :
             \E newDuration \in getRandomDuration(newWeather) :
                 StoreCall("tick", tick(hay, hayNow, newWeather, newDuration))
    ELSE StoreCall("tick", tick(hay, hayNow, "sunny", 0))

\* makeHay()
StoreMakeHay == StoreCall("makeHay", makeHay(hay, hayNow))

\* startCovering()
StoreStartCovering == StoreCall("startCovering", startCovering(hay, hayNow))

\* stopCovering()
StoreStopCovering == StoreCall("stopCovering", stopCovering(hay))

NextHayStore ==
    \/ HayWait
    \/ StoreStartGame
    \/ StoreTick
    \/ StoreMakeHay
    \/ StoreStartCovering
    \/ StoreStopCovering

\* No Game is mounted.
InitHayStore == HayMounts({})

SpecHayStore == InitHayStore /\ [][NextHayStore]_vars

\* The hay amounts, the weather and the action flags of the store.
Gameplay(s) ==
    <<s.uncoveredHay, s.coveredHay, s.weather, s.isMakingHay, s.isCovering>>

\* C29: the first tick at which the elapsed time is 90 s or more ends the game
\* (isPlaying false, isGameOver true) and applies no other update; from then
\* until the next startGame no tick, makeHay, startCovering or stopCovering
\* changes the hay amounts, the weather or the action flags.
C29_GameOverIsFinal ==
    /\ [][(hayLast'.op = "tick" /\ hay.isPlaying /\ ~hay.isGameOver
           /\ hayNow - hay.startTime >= GAME_DURATION)
              => (hay' = [hay EXCEPT !.isPlaying = FALSE, !.isGameOver = TRUE])]_vars
    /\ [][(hay.isGameOver
           /\ hayLast'.op \in {"tick", "makeHay", "startCovering", "stopCovering"})
              => (Gameplay(hay') = Gameplay(hay))]_vars


-----------------------------------------------------------------------------
(***************************************************************************)
(* Froggle: one SeededRNG stream (main.tsx lines 85-108), built from the   *)
(* seed prop as in line 207 and called as the lane set-up calls it.        *)
(***************************************************************************)
MaxRngCalls == 6

\* The seed props: the type is number, the host may pass any integer.  0 is left
\* out: seed || Date.now() replaces it by the clock.
RngSeeds == {-12345, -1000, -6, -5, -1, 1, 7, 12345}

\* The (min, max) of the nextRange calls and the lists of the choice calls of the
\* lane set-up (lines 229-294).
RngRanges == {<<2, 4>>, <<0, 2>>, <<0, 100>>}
RngLists == {<<"log", "turtle", "lilypad">>, <<"car", "truck">>, <<"left", "right">>}

\* new SeededRNG(seed)
InitRng ==
    /\ rngSeed \in RngSeeds /\ rngOut = NoCall /\ rngCalls = 0
    /\ SnakleIdle /\ LevelIdle /\ MastermindIdle /\ ScoreIdle /\ CollideIdle /\ FroggleIdle
    /\ HayIdle /\ NomojiIdle /\ SeededIdle

RngCall(out) ==
    /\ rngCalls < MaxRngCalls
    /\ rngSeed' = FrogNext(rngSeed)
    /\ rngOut' = out
    /\ rngCalls' = rngCalls + 1
    /\ UNCHANGED <<snakleVars, levelVars, mastermindVars, scoreVars, collideVars,
                   froggleVars, hayVars, nomojiVars, seededVars>>

\* next() and nextFloat(): the value returned is value / MODULUS.
RngNextFloat == RngCall([op |-> "next", args |-> <<>>, value |-> FrogNext(rngSeed)])

\* nextRange(min, max)
RngNextRange ==
    \E r \in RngRanges :
        RngCall([op |-> "nextRange", args |-> r,
                 value |-> RangeOf(FrogNext(rngSeed), r[1], r[2])])

\* choice(arr)
RngChoice ==
    \E arr \in RngLists :
        RngCall([op |-> "choice", args |-> arr,
                 value |-> ChoiceOf(FrogNext(rngSeed), arr)])

NextRng == RngNextFloat \/ RngNextRange \/ RngChoice

SpecRng == InitRng /\ [][NextRng]_vars

\* C25: for every integer seed the host passes, negative ones included, every
\* next() / nextFloat() result lies in [0, 1), every nextRange(min, max) result
\* is an integer of min..max, and choice(list) returns an element of the list.
C25_StreamContract ==
    /\ rngOut.op = "next" => (0 <= rngOut.value /\ rngOut.value < MODULUS)
    /\ rngOut.op = "nextRange" => rngOut.value \in rngOut.args[1]..rngOut.args[2]
    /\ rngOut.op = "choice"
           => \E k \in DOMAIN rngOut.args : rngOut.value = rngOut.args[k]


-----------------------------------------------------------------------------
(***************************************************************************)
(* Mastermind: Games mounted one after another with the same seed prop     *)
(* (part_001 line 183).                                                    *)
(***************************************************************************)
MaxInstances == 3

\* The seed props the host passes, and the low 32 bits of Date.now() at a mount.
SeedProps == {0, 1, 2, 12345}
MountNows == {<<32473, 29184>>, <<32473, 29185>>, <<32474, 100>>}

InitSeeded ==
    /\ seedProp \in SeedProps /\ instances = <<>>
    /\ SnakleIdle /\ LevelIdle /\ MastermindIdle /\ ScoreIdle /\ CollideIdle /\ FroggleIdle
    /\ HayIdle /\ NomojiIdle /\ RngIdle

\* seed || Date.now(): 0 is falsy.
SeedOrNow(sd, now) == IF sd # 0 THEN SeedWord(sd) ELSE now

\* A Game is mounted: useState(() => generateCode(seed || Date.now())).
MountGame ==
    /\ Len(instances) < MaxInstances
    /\ \E now \in MountNows :
           instances' = Append(instances,
                               [now |-> now,
                                solution |-> generateCode(SeedOrNow(seedProp, now))])
    /\ UNCHANGED seedProp
    /\ UNCHANGED <<snakleVars, levelVars, mastermindVars, scoreVars, collideVars,
                   froggleVars, hayVars, nomojiVars, rngVars>>

NextSeeded == MountGame

SpecSeeded == InitSeeded /\ [][NextSeeded]_vars

\* C26: for every numeric seed supplied, 0 included, the solution depends on the
\* seed alone: two Games mounted with the same seed, whenever they are mounted,
\* have the same solution.
C26_SeedFixesSolution ==
    \A i, j \in DOMAIN instances : instances[i].solution = instances[j].solution


-----------------------------------------------------------------------------
(***************************************************************************)
(* Mastermind: the end of the game and the limits of the board.            *)
(***************************************************************************)
\* C28: once the status is won or lost it never changes again, addPeg, removePeg
\* and submitGuess change nothing and onComplete is not invoked again; in every
\* reachable state there are at most 10 stored guesses and at most 4 pegs in the
\* current guess, and a submit with fewer than 4 pegs changes nothing.
C28_EndedGameIsInert ==
    /\ [][(gameStatus \in {"won", "lost"}
            /\ ((\E color \in ColorIds : addPeg(color)) \/ removePeg \/ submitGuess))
              => (UNCHANGED mastermindVars)]_vars
    /\ [](gameStatus \in {"won", "lost"} => Len(mmCompleted) = 1)
    /\ [](Len(guesses) <= MAX_GUESSES /\ Len(currentGuess) <= CODE_LENGTH)
    /\ [][(submitGuess /\ Len(currentGuess) < CODE_LENGTH)
              => (UNCHANGED mastermindVars)]_vars

\* The game was won on a later guess, and a peg could be pressed next.
C28_WonAndStillClickable ==
    /\ gameStatus = "won" /\ Len(guesses) >= 2 /\ Len(mmCompleted) = 1
    /\ currentGuess = <<>> /\ showWinModal
    /\ ENABLED (\E color \in ColorIds : addPeg(color))


-----------------------------------------------------------------------------
(***************************************************************************)
(* Froggle: input and animation frames after the game has ended.  The key  *)
(* listener and the on-screen buttons stay in place (lines 340-362,        *)
(* 596-620) and the effect of lines 424-429 requests one more animation    *)
(* frame when gameState changes.                                           *)
(***************************************************************************)
\* An arrow key or an on-screen button after the game has ended.
MoveAfterEnd(dir) ==
    /\ frogGameState # "playing"
    /\ InstallFrog(Checked(handleMove(Frog, dir)))
    /\ lastCheck' = CheckOf(handleMove(Frog, dir))
    /\ UNCHANGED <<frameCount, resetQueued>> /\ FroggleFrame

\* An animation frame after the game has ended.
FrameAfterEnd ==
    /\ frogGameState # "playing"
    /\ frameCount <= MaxFrames
    /\ \E time \in IF previousTime = -1 THEN FirstFrames
                   ELSE {previousTime + gap : gap \in FrameGaps} :
           /\ InstallFrog(Checked(animate(Frog, time)))
           /\ lastCheck' = CheckOf(animate(Frog, time))
    /\ frameCount' = frameCount + 1 /\ UNCHANGED resetQueued /\ FroggleFrame

NextFroggleEnded ==
    \/ NextFroggle
    \/ \E dir \in {"up", "down", "left", "right"} : MoveAfterEnd(dir)
    \/ FrameAfterEnd

SpecFroggleEnded == InitFroggle /\ [][NextFroggleEnded]_vars

-----------------------------------------------------------------------------
(***************************************************************************)
(* Nomoji: guesses after the game has ended.  handleGuess is called again  *)
(* by a play that shows its results already.                               *)
(***************************************************************************)
GuessAfterEnd(p, emoji) ==
    /\ nomoji[p].showResults
    /\ LET after == handleGuess(nomoji[p], nomojiCompleted[p], emoji, nomojiNow)
       IN  /\ nomoji' = [nomoji EXCEPT ![p] = after.game]
           /\ nomojiCompleted' = [nomojiCompleted EXCEPT ![p] = after.completed]
    /\ UNCHANGED <<nomojiSeed, sortOrders, gameData, nomojiNow, nomojiWaits>>
    /\ NomojiFrame

NextNomojiEnded ==
    \/ NextNomoji
    \/ \E p \in Plays :
           \E emoji \in SetOf(gameData.allThreeEmojis) : GuessAfterEnd(p, emoji)

SpecNomojiEnded == InitNomoji /\ [][NextNomojiEnded]_vars

\* The play has ended by its guesses: its last guess is the missing emoji, or it
\* has made two guesses.
EndedByGuesses(game) ==
    \/ Len(game.guesses) >= 2
    \/ Len(game.guesses) >= 1 /\ game.guesses[Len(game.guesses)] = gameData.missingEmoji

\* C31: the player has exactly two guesses: the game ends on the first correct
\* guess or on the second guess, whichever comes first; onComplete is invoked
\* exactly once at that moment, and every later guess changes nothing.
C31_TwoGuessesThenOver ==
    /\ [](\A p \in Plays :
            /\ Len(nomoji[p].guesses) <= 2
            /\ nomoji[p].showResults = EndedByGuesses(nomoji[p])
            /\ Len(nomojiCompleted[p]) = IF nomoji[p].showResults THEN 1 ELSE 0
            /\ \A k \in 1..(Len(nomoji[p].guesses) - 1) :
                   nomoji[p].guesses[k] # gameData.missingEmoji)
    /\ [][\A p \in Plays :
            nomoji[p].showResults
                => (nomoji'[p] = nomoji[p] /\ nomojiCompleted'[p] = nomojiCompleted[p])]_vars

\* One play ended on its second wrong guess, the other on a correct first guess.
C31_EndedBothWays ==
    /\ nomoji[1].showResults /\ ~nomoji[1].isSuccess /\ Len(nomoji[1].guesses) = 2
    /\ nomojiCompleted[1] = <<0>>
    /\ WonWith(2, 1) /\ Len(nomojiCompleted[2]) = 1


-----------------------------------------------------------------------------
(***************************************************************************)
(* Snakle: growth, score and speed, movement.                              *)
(***************************************************************************)
\* No two segments of snk share a cell.
NoSharedCell(snk) == \A i, j \in 1..Len(snk) : snk[i] = snk[j] => i = j

\* The movement tick that is taken ate the fruit and play goes on.
AteFruit == ticks' # ticks /\ score' = score + 1 /\ gameState' = "PLAYING"

\* C32: eating a fruit grows the snake by exactly one segment, the appended
\* segment occupies the cell the tail occupied before the move that ate the
\* fruit, and so no two segments of the snake share a cell after growth.
C32_GrowsAtPriorTail ==
    [][AteFruit => (/\ Len(snake') = Len(snake) + 1
                    /\ snake'[Len(snake')] = snake[Len(snake)]
                    /\ NoSharedCell(snake'))]_vars


\* A session late in a game: the player has eaten n fruits, has then run into a
\* wall and is back in the countdown on the initial snake, with the score and
\* the speed the n fruits have left (a life loss resets neither).
LateScores == {34, 35}

RECURSIVE SpeedAfter(_)
SpeedAfter(n) == IF n = 0 THEN INITIAL_SPEED ELSE Faster(SpeedAfter(n - 1))

InitLate ==
    /\ seed \in SnakleSeeds
    /\ today \in Dates
    /\ walls = generateLevel(dateSeed(seed, today))
    /\ \E cell \in SpawnCells(INITIAL_SNAKE, walls) : \E n \in LateScores :
           SessionIs([StartCountdown(Mounted(walls, cell)) EXCEPT
                         !.score = n, !.speed = SpeedAfter(n), !.lives = 1])
    /\ ticks = 0 /\ turned = FALSE /\ mounted = TRUE
    /\ twin = NewSession /\ twinWalls = <<>>
    /\ LevelIdle /\ MastermindIdle /\ ScoreIdle /\ CollideIdle /\ FroggleIdle /\ MoreIdle

NextLate ==
    \/ CountdownFires
    \/ RestartFires
    \/ GameLoopFires
    \/ \E d \in Directions : KeyDown(d)

SpecLate == InitLate /\ [][NextLate]_vars

\* The movement tick that is taken puts the head on the fruit.
HeadLandsOnFruit ==
    /\ ticks' # ticks /\ gameState = "PLAYING" /\ isAlive
    /\ ~HitsBody(snake, NewHead(Session)) /\ NewHead(Session) = fruit

\* C33: each fruit consumption raises the score by exactly 1 and lowers the tick
\* interval by 2 ms, floored at 80 ms; in every reachable state
\* 80 <= speed <= 150, and the interval never increases: a life loss does not
\* reset it.
C33_SpeedOnlyFalls ==
    /\ [][HeadLandsOnFruit
              => (/\ score' = score + 1
                  /\ speed' = IF speed - 2 >= 80 THEN speed - 2 ELSE 80)]_vars
    /\ [][(score' # score) => HeadLandsOnFruit]_vars
    /\ [](80 <= speed /\ speed <= 150)
    /\ [][(speed' <= speed) /\ (lives' # lives => speed' = speed)]_vars

\* A fruit was eaten at the floor: the 36th fruit left the interval at 80 ms.
C33_AteAtTheFloor ==
    /\ score = 36 /\ speed = MIN_SPEED /\ Len(snake) = 4 /\ ticks >= 1
    /\ gameState = "PLAYING"


\* A session in play whose snake has reached an edge of the grid: three segments
\* in a line, the head on one of EdgeHeads, heading d, no cell of it a wall.
EdgeHeads ==
    {[x |-> 0, y |-> 0], [x |-> 19, y |-> 19], [x |-> 0, y |-> 10], [x |-> 10, y |-> 0],
     [x |-> 19, y |-> 5], [x |-> 5, y |-> 19]}

Straight(h, d) ==
    [k \in 1..3 |-> [x |-> h.x - (k - 1) * DIRECTIONS[d].x,
                     y |-> h.y - (k - 1) * DIRECTIONS[d].y]]

InGridCell(c) == c.x \in 0..(GRID_SIZE - 1) /\ c.y \in 0..(GRID_SIZE - 1)

EdgeSnakes(ws) ==
    {sd \in EdgeHeads \X Directions :
        \A k \in 1..3 : /\ InGridCell(Straight(sd[1], sd[2])[k])
                        /\ ~Some(ws, Straight(sd[1], sd[2])[k])}

InitEdge ==
    /\ seed \in SnakleSeeds
    /\ today \in Dates
    /\ walls = generateLevel(dateSeed(seed, today))
    /\ \E sd \in EdgeSnakes(walls) :
           \E cell \in SpawnCells(Straight(sd[1], sd[2]), walls) :
               SessionIs([Mounted(walls, cell) EXCEPT
                             !.snake = Straight(sd[1], sd[2]), !.direction = sd[2],
                             !.gameState = "PLAYING"])
    /\ ticks = 0 /\ turned = FALSE /\ mounted = TRUE
    /\ twin = NewSession /\ twinWalls = <<>>
    /\ LevelIdle /\ MastermindIdle /\ ScoreIdle /\ CollideIdle /\ FroggleIdle /\ MoreIdle

NextEdge ==
    \/ CountdownFires
    \/ GameLoopFires
    \/ \E d \in Directions : KeyDown(d)

SpecEdge == InitEdge /\ [][NextEdge]_vars

\* The movement tick that is taken collides with nothing and eats nothing.
MovesFreely ==
    /\ ticks' # ticks /\ gameState = "PLAYING" /\ isAlive
    /\ ~HitsBody(snake, NewHead(Session)) /\ ~Some(walls, NewHead(Session))
    /\ NewHead(Session) # fruit

\* C34: a non-colliding movement tick moves the head one cell in the current
\* direction with toroidal wraparound (x and y modulo 20), shifts every other
\* segment to its predecessor's cell and keeps the length; in every reachable
\* state every segment has 0 <= x < 20 and 0 <= y < 20.
C34_MovesOnTheTorus ==
    /\ [][MovesFreely
              => (/\ Len(snake') = Len(snake)
                  /\ snake'[1] = [x |-> (snake[1].x + DIRECTIONS[direction].x + 20) % 20,
                                  y |-> (snake[1].y + DIRECTIONS[direction].y + 20) % 20]
                  /\ \A k \in 2..Len(snake) : snake'[k] = snake[k - 1])]_vars
    /\ [](\A k \in 1..Len(snake) :
              0 <= snake[k].x /\ snake[k].x < 20 /\ 0 <= snake[k].y /\ snake[k].y < 20)

\* The head has left the grid on the left and come back on the right.
C34_WrappedAround ==
    /\ ticks >= 1 /\ gameState = "PLAYING" /\ Len(snake) = 3
    /\ snake[1].x = 19 /\ snake[2].x = 0 /\ snake[1].y = snake[2].y


-----------------------------------------------------------------------------
(***************************************************************************)
(* Hay Girl: the weather.  One Game is started and ticks while the clock   *)
(* advances by steps of the length of a weather, so that the weather       *)
(* changes several times in a game.                                        *)
(***************************************************************************)
WeatherSteps == {100, 2500}

WeatherWait == HayWaitBy(WeatherSteps)

NextWeather ==
    \/ WeatherWait
    \/ \E i \in GameIds : handleStart(i) \/ TickFires(i)

SpecWeather == InitHay /\ [][NextWeather]_vars

\* The members of possibleTransitions of weather w.
Transitions(w) ==
    {WEATHER_CONFIGS[w].possibleTransitions[k] :
        k \in 1..Len(WEATHER_CONFIGS[w].possibleTransitions)}

\* C35: every weather change moves from the current weather w to a member of
\* WEATHER_CONFIGS[w].possibleTransitions and happens only at a tick whose
\* elapsed time is >= weather.nextChangeAt; hence windy, rainy and snowing never
\* repeat themselves immediately and snowing is entered only from rainy.  (A
\* startGame sets the weather up anew and is no change of the weather.)
C35_WeatherFollowsTransitions ==
    [][(hay'.weather # hay.weather /\ hayLast'.op # "startGame")
           => (/\ hayLast'.op = "tick"
               /\ hayNow - hay.startTime >= hay.weather.nextChangeAt
               /\ hay'.weather.current \in Transitions(hay.weather.current)
               /\ hay.weather.current \in {"windy", "rainy", "snowing"}
                      => hay'.weather.current # hay.weather.current
               /\ hay'.weather.current = "snowing" => hay.weather.current = "rainy"
               /\ hay'.weather.nextChangeAt
                      = (hayNow - hay.startTime) + hay'.weather.duration)]_vars

\* It snows: the weather has changed three times.
C35_ItSnows ==
    /\ hay.weather.current = "snowing" /\ hay.isPlaying /\ hayLast.op = "tick"
    /\ hay.elapsedTime = 7500


-----------------------------------------------------------------------------
(***************************************************************************)
(* Snakle: reversals.                                                      *)
(***************************************************************************)
\* The snake has moved in this life: a reset leaves INITIAL_SNAKE.  The movement
\* tick before has then taken the head from snake[2] to snake[1].
MovedInThisLife == snake # INITIAL_SNAKE /\ snake[1] # snake[2]

\* C36: within one life the direction a movement tick applies is never the exact
\* opposite of the direction the movement tick before it applied, whatever
\* direction inputs come between the two: the head is never sent straight back
\* into the segment directly behind it.
C36_NeverReverses ==
    [][(ticks' # ticks /\ gameState = "PLAYING" /\ isAlive /\ MovedInThisLife)
           => NewHead(Session) # snake[2]]_vars


-----------------------------------------------------------------------------
(***************************************************************************)
(* Snakle: the fruit, on the boards of SnakleSeeds (SpecSnakle) and on the *)
(* board generateLevel returns when its loop runs out (SpecFallback).      *)
(***************************************************************************)
\* return [] (line 190): the walls of a seed string whose 100 candidates all
\* fail the connectivity check.
FallbackWalls == <<>>

\* The first render and its effects with the walls memo holding the fallback
\* board; seed and today stand for a seed string of that kind.
InitFallback ==
    /\ seed \in SnakleSeeds
    /\ today \in Dates
    /\ walls = FallbackWalls
    /\ \E cell \in SpawnCells(INITIAL_SNAKE, walls) : SessionIs(Mounted(walls, cell))
    /\ ticks = 0 /\ turned = FALSE /\ mounted = TRUE
    /\ twin = NewSession /\ twinWalls = <<>>
    /\ LevelIdle /\ MastermindIdle /\ ScoreIdle /\ CollideIdle /\ FroggleIdle /\ MoreIdle

SpecFallback == InitFallback /\ [][NextSnakle]_vars

-----------------------------------------------------------------------------
(***************************************************************************)
(* Froggle: the life loss as React applies it (SpecFroggleRace).  The      *)
(* collision check is a passive effect: its setLives((l) => l - 1) and     *)
(* setFrogPos(start) are queued and take effect in a later render, and an  *)
(* animation frame or a key press can run before that render.  Until then  *)
(* frogPos, frogPosRef.current and lives still hold the values of the      *)
(* render the effect ran in.                                               *)
(***************************************************************************)
FrogDirs == {"up", "down", "left", "right"}

\* The collision check of the render that shows f takes the lives > 1 branch.
QueuesReset(f) ==
    f.gameState = "playing" /\ f.lives > 1 /\ CollisionCheck(f).lives < f.lives

\* The effects of the render that shows g: a life loss with lives remaining stays
\* queued, everything else is as in Checked.
AfterEffects(g, check) ==
    /\ InstallFrog(IF QueuesReset(g) THEN g ELSE Checked(g))
    /\ resetQueued' = QueuesReset(g)
    /\ lastCheck' = check

\* animate reaches setFrogPos((prev) => ({ ...prev, x: newX })).
Drifts(f, time) ==
    /\ f.gameState = "playing" /\ f.previousTime # -1
    /\ LET dt == time - f.previousTime
           currentLane == MovedLane(f.lanes[f.frogPos.y + 1], dt, time)
       IN  /\ currentLane.type = "river"
           /\ ~isColliding(f.frogPos, currentLane.obstacles, currentLane.type)

FrameTimes == IF previousTime = -1 THEN FirstFrames
              ELSE {previousTime + gap : gap \in FrameGaps}

MoveThenCheck(dir) ==
    /\ frogGameState = "playing" /\ ~resetQueued
    /\ AfterEffects(handleMove(Frog, dir), CheckOf(handleMove(Frog, dir)))
    /\ UNCHANGED frameCount /\ FroggleFrame

FrameThenCheck ==
    /\ frogGameState = "playing" /\ ~resetQueued
    /\ frameCount < MaxFrames
    /\ \E time \in FrameTimes :
           AfterEffects(animate(Frog, time),
                        IF previousTime = -1 THEN lastCheck
                        ELSE CheckOf(animate(Frog, time)))
    /\ frameCount' = frameCount + 1 /\ FroggleFrame

\* The render of the queued life loss, nothing having run since the effect.
RenderReset ==
    /\ resetQueued
    /\ AfterEffects(LoseLife(Frog), CheckOf(LoseLife(Frog)))
    /\ UNCHANGED frameCount /\ FroggleFrame

\* An animation frame before that render: animate reads the frog of
\* frogPosRef.current, and its updater of frogPos is queued behind
\* setFrogPos(start).
FrameBeforeRender ==
    /\ resetQueued
    /\ frameCount < MaxFrames
    /\ \E time \in FrameTimes :
           LET a == animate(Frog, time)
               g == [a EXCEPT !.lives = @ - 1,
                              !.frogPos = IF Drifts(Frog, time)
                                          THEN [StartPos EXCEPT !.x = a.frogPos.x]
                                          ELSE StartPos]
           IN  AfterEffects(g, CheckOf(g))
    /\ frameCount' = frameCount + 1 /\ FroggleFrame

\* A key press before that render: the updater of handleMove is queued behind
\* setFrogPos(start) and moves the frog from the start cell.
MoveBeforeRender(dir) ==
    /\ resetQueued
    /\ AfterEffects(handleMove(LoseLife(Frog), dir),
                    CheckOf(handleMove(LoseLife(Frog), dir)))
    /\ UNCHANGED frameCount /\ FroggleFrame

NextFroggleRace ==
    \/ \E dir \in FrogDirs : MoveThenCheck(dir)
    \/ FrameThenCheck
    \/ RenderReset
    \/ FrameBeforeRender
    \/ \E dir \in FrogDirs : MoveBeforeRender(dir)

SpecFroggleRace == InitFroggle /\ [][NextFroggleRace]_vars

\* C38: each life loss with lives remaining takes exactly one life and leaves the
\* frog on the start cell (x = 7, y = 14) once the reset is applied, whatever
\* animation frames and key presses run between the collision check and the
\* reset; a key press queued behind the reset moves the frog on from the start
\* cell.
C38_LossResetsToStart ==
    [][(frogLives' < frogLives /\ frogLives' >= 1)
           => /\ frogLives' = frogLives - 1
              /\ \/ frogPos' = StartPos
                 \/ \E dir \in FrogDirs :
                        frogPos' = handleMove(LoseLife(Frog), dir).frogPos]_vars


-----------------------------------------------------------------------------
-----------------------------------------------------------------------------
(***************************************************************************)
(* Mastermind: the score reported.                                         *)
(***************************************************************************)
\* n stored guesses.
Stored(n) == [i \in 1..n |-> <<>>]

\* C40: a win on the n-th guess (1 <= n <= 10) reports max(0, 1000 - 100n) and a
\* loss reports 0; the score falls strictly as n grows, from 900 at n = 1 to 0
\* for a win on the 10th guess, which is what a loss reports.
C40_ScoreFallsWithGuesses ==
    /\ gameStatus = "won"
           => /\ Len(guesses) \in 1..MAX_GUESSES
              /\ mmCompleted = <<1000 - 100 * Len(guesses)>>
              /\ mmCompleted[1] >= 0
    /\ gameStatus = "lost" => mmCompleted = <<0>>
    /\ gameStatus = "playing" => mmCompleted = <<>>
    /\ \A n \in 1..(MAX_GUESSES - 1) : WinScore(Stored(n)) > WinScore(Stored(n + 1))
    /\ WinScore(Stored(1)) = 900
    /\ WinScore(Stored(MAX_GUESSES)) = 0

\* The 10th guess was the solution: a win that reports 0.
C40_WonOnTenth ==
    /\ gameStatus = "won" /\ Len(guesses) = MAX_GUESSES
    /\ guesses[MAX_GUESSES] = solution /\ mmCompleted = <<0>>

=============================================================================
